---- MODULE Spec2Model ----
(***************************************************************************)
(* Model of the Minecraft Terraform provider of terraform-provider-workshop *)
(* (provider entry point, HTTP client, block and schema resources, the      *)
(* schema_hash plan modifier).  The repository holds three builds of the    *)
(* provider; the variable `build` says which one is running:                *)
(*   "provider"        the workshop's working copy (src/provider and the    *)
(*                     block resource / provider.go of unnamed/part_003),   *)
(*   "provider_final"  the finished provider (src/provider_final),          *)
(*   "part_009"        the provider.go of unnamed/part_009, run with the    *)
(*                     resources of provider_final.                         *)
(***************************************************************************)
EXTENDS Integers, Sequences, FiniteSets, TLC

VARIABLES
    build,        \* which build of the provider is running
    env,          \* process environment: MINECRAFT_ENDPOINT, MINECRAFT_APIKEY
    providerData, \* the provider block as decoded into MinecraftProviderModel
    configureResp, \* provider.ConfigureResponse written by MinecraftProvider.Configure
    focus,        \* the resource kind the host is driving: "block" or "schema"
    world,        \* the remote Minecraft world: placed blocks and applied schemas
    blockCfg,     \* the minecraft_block declaration in the configuration
    blockState,   \* the persisted state of the block resource (Nil: absent)
    schemaCfg,    \* the minecraft_schema declaration in the configuration
    schemaState,  \* the persisted state of the schema resource (Nil: absent)
    fs,           \* the local files: path -> Nil (missing) or Ptr(bytes)
    pending,      \* a SchemaResource.Create between its upload and its hashing
    planResp,     \* the host's last plan: the planned change and the handlers still to call
    lastResp,     \* what the last handler call did: diagnostics, HTTP exchanges, file reads
    dataCfg,      \* the data "minecraft_block" declaration in the configuration
    dataState,    \* the state of the block data source (Nil: not read)
    inst,         \* block resource instances whose handlers run concurrently
    serial        \* the states of those instances when the handlers run one at a time

providerVars == <<build, env, providerData, configureResp>>

blockVars == <<blockCfg, blockState>>

schemaVars == <<schemaCfg, schemaState, fs, pending>>

dataVars == <<dataCfg, dataState>>

(* The variables the provider, the resources and the host leave alone.      *)
concVars == <<inst, serial>>

moreVars == <<dataVars, concVars>>

vars == <<build, env, providerData, configureResp, focus, world, blockCfg, blockState,
          schemaCfg, schemaState, fs, pending, planResp, lastResp, dataCfg, dataState,
          inst, serial>>

Builds == {"provider", "provider_final", "part_009"}

(* Bounds of the model. *)
MaxCoord == 0     \* the block declarations use x in 0..MaxCoord besides -1273

MaxByte == 1      \* a schema file holds one byte in 0..MaxByte

MaxSchemas == 2   \* the remote issues at most this many schema ids

MaxFileLen == 2   \* the files that are only hashed hold at most this many bytes

-----------------------------------------------------------------------------
(* types.String / types.Number of the plugin framework: a value that is     *)
(* null, unknown or known.  ValueString() of a null or unknown string is "". *)
StringNull == [state |-> "null", value |-> ""]

StringUnknown == [state |-> "unknown", value |-> ""]

StringValue(s) == [state |-> "known", value |-> s]

NumberValue(n) == [state |-> "known", value |-> n]

IsNull(v) == v.state = "null"

ValueString(v) == IF v.state = "known" THEN v.value ELSE ""

(* diag.Diagnostics: a sequence of diagnostics, each with a severity.       *)
NoDiagnostics == <<>>

AddError(diags, summary, detail) ==
    Append(diags, [severity |-> "error", summary |-> summary, detail |-> detail])

AddWarning(diags, summary, detail) ==
    Append(diags, [severity |-> "warning", summary |-> summary, detail |-> detail])

HasError(diags) == \E i \in 1..Len(diags) : diags[i].severity = "error"

(* A Go pointer / interface value: <<>> is nil, <<v>> points to v.          *)
Nil == <<>>

Ptr(v) == <<v>>

-----------------------------------------------------------------------------
(* client.go: the HTTP client holds the base URL and the api key.           *)
newClient(url, apiKey) == [baseURL |-> url, apiKey |-> apiKey]

EmptyConfigureResponse ==
    [Diagnostics |-> NoDiagnostics, DataSourceData |-> Nil, ResourceData |-> Nil]

MsgEndpoint ==
    "Unable to set endpoint, please set either the endpoint property in the provider or the environment variable 'MINECRAFT_ENDPOINT'"

MsgApiKey ==
    "unable to set endpoint, please set either the endpoint property in the provider or the environment variable 'MINECRAFT_APIKEY'"

MsgEndpointOld ==
    "unable to set endpoint, please set either the endpoint property in the provider or the environment variable 'MINECRAFT_ENDPOINT'"

WithClient(resp, c) ==
    [resp EXCEPT !.DataSourceData = Ptr(c), !.ResourceData = Ptr(c)]

(* provider.go of the workshop build (unnamed/part_003, lines 281-312):     *)
(* both fields start from the environment; unless the field is missing from *)
(* both places, the value is then taken from the provider block.            *)
Configure_provider(data, e) ==
    LET resp == EmptyConfigureResponse
        endpoint0 == e.MINECRAFT_ENDPOINT
        apiKey0 == e.MINECRAFT_APIKEY
    IN  IF endpoint0 = "" /\ IsNull(data.Endpoint)
        THEN [resp EXCEPT !.Diagnostics = AddError(@, MsgEndpointOld, "")]
        ELSE LET endpoint == ValueString(data.Endpoint)
             IN  IF apiKey0 = "" /\ IsNull(data.APIKey)
                 THEN [resp EXCEPT !.Diagnostics = AddError(@, MsgEndpointOld, "")]
                 ELSE LET apiKey == ValueString(data.APIKey)
                      IN  WithClient(resp, newClient(endpoint, apiKey))

(* The resolution shared by provider_final/provider.go (lines 64-83) and    *)
(* unnamed/part_009 (lines 316-335): the declared value when it is not      *)
(* null, then overridden by the environment variable when that is not "".   *)
FromConfig(v) == IF ~IsNull(v) THEN ValueString(v) ELSE ""

(* A resolution in which a declared value is kept and the environment only  *)
(* fills a field that is still "".                                          *)
OverrideFromEnv_KeepDeclared(cur, ev) == IF cur # "" THEN cur ELSE ev

OverrideFromEnv(cur, ev) == IF ev # "" THEN ev ELSE cur

ResolveEndpoint(data, e) ==
    OverrideFromEnv(FromConfig(data.Endpoint), e.MINECRAFT_ENDPOINT)

ResolveApiKey(data, e) ==
    OverrideFromEnv(FromConfig(data.APIKey), e.MINECRAFT_APIKEY)

(* provider_final/provider.go, lines 55-106.                                *)
(* Configure without the check of the endpoint. *)
Configure_provider_final_Unchecked(data, e) ==
    WithClient(EmptyConfigureResponse,
               newClient(ResolveEndpoint(data, e), ResolveApiKey(data, e)))

Configure_provider_final(data, e) ==
    LET resp == EmptyConfigureResponse
        endpoint == ResolveEndpoint(data, e)
        apiKey == ResolveApiKey(data, e)
    IN  IF endpoint = ""
        THEN [resp EXCEPT !.Diagnostics = AddError(@, "Configuration Error", MsgEndpoint)]
        ELSE IF apiKey = "" /\ IsNull(data.APIKey)
        THEN [resp EXCEPT !.Diagnostics = AddError(@, "Configuration Error", MsgApiKey)]
        ELSE WithClient(resp, newClient(endpoint, apiKey))

(* unnamed/part_009, lines 307-357.                                         *)
Configure_part_009(data, e) ==
    LET resp == EmptyConfigureResponse
        endpoint == ResolveEndpoint(data, e)
        apiKey == ResolveApiKey(data, e)
    IN  IF endpoint = ""
        THEN [resp EXCEPT !.Diagnostics = AddError(@, "Configuration Error", MsgEndpoint)]
        ELSE IF apiKey = ""
        THEN [resp EXCEPT !.Diagnostics = AddError(@, "Configuration Error", MsgApiKey)]
        ELSE WithClient(resp, newClient(endpoint, apiKey))

Configure(b, data, e) ==
    CASE b = "provider" -> Configure_provider(data, e)
      [] b = "provider_final" -> Configure_provider_final(data, e)
      [] b = "part_009" -> Configure_part_009(data, e)

-----------------------------------------------------------------------------
(* Inputs of the provider configuration.                                    *)
EndpointValues == {"", "A", "B"}

ApiKeyValues == {"", "A", "B"}

DeclaredStrings(S) == {StringNull} \cup {StringValue(s) : s \in S}

NotConfigured == [done |-> FALSE, resp |-> EmptyConfigureResponse]

InitProvider ==
    /\ build \in Builds
    /\ env \in [MINECRAFT_ENDPOINT : EndpointValues, MINECRAFT_APIKEY : ApiKeyValues]
    /\ providerData \in [Endpoint : DeclaredStrings(EndpointValues),
                         APIKey : DeclaredStrings(ApiKeyValues)]
    /\ configureResp = NotConfigured

(* The host calls MinecraftProvider.Configure once per provider instance.   *)
ProviderConfigure ==
    /\ ~configureResp.done
    /\ configureResp' = [done |-> TRUE, resp |-> Configure(build, providerData, env)]
    /\ UNCHANGED <<moreVars, build, env, providerData, focus, world, blockVars, schemaVars, planResp, lastResp>>

-----------------------------------------------------------------------------
(* client.go: requests and the errors of the client methods.                *)
StatusOK == 200

(* What the remote can answer to one request: the transport fails           *)
(* (http.DefaultClient.Do returns an error), or a response arrives with a   *)
(* status code and a body that is JSON of the expected shape or is not.     *)
TransportFailure == [kind |-> "transport"]

HttpReply(status, body) == [kind |-> "http", StatusCode |-> status, Body |-> body]

JsonBody(v) == [json |-> TRUE, value |-> v]

TextBody(t) == [json |-> FALSE, text |-> t]

(* A request without the credential. *)
Request_NoKey(c, method, path, args, body) ==
    [Method |-> method, base |-> c.baseURL, path |-> path, args |-> args,
     Header |-> [XAPIKey |-> ""], Body |-> body]

(* r.Header.Add(authHeader, c.apiKey) *)
Request(c, method, path, args, body) ==
    [Method |-> method, base |-> c.baseURL, path |-> path, args |-> args,
     Header |-> [XAPIKey |-> c.apiKey], Body |-> body]

ErrExecute == [msg |-> "unable to execute request"]

ErrStatus(reply) ==
    [msg |-> "expected status 200, got status", status |-> reply.StatusCode,
     message |-> reply.Body]

ErrDecode(what) == [msg |-> what]

(* The result of a client method: the value it returns and its error.       *)
Ok(v) == [value |-> Ptr(v), err |-> Nil]

Err(e) == [value |-> Nil, err |-> Ptr(e)]

(* client.go, lines 61-78 and 112-130: the reply handling createBlock and   *)
(* getBlock share.                                                          *)
DecodeBlock(reply) ==
    IF reply.kind = "transport" THEN Err(ErrExecute)
    ELSE IF reply.StatusCode # StatusOK THEN Err(ErrStatus(reply))
    ELSE IF ~reply.Body.json THEN Err(ErrDecode("unable to decode block"))
    ELSE Ok(reply.Body.value)

(* client.go, lines 90-100 and 171-181: deleteBlock and undoSchema.         *)
ExpectOK(reply) ==
    IF reply.kind = "transport" THEN Err(ErrExecute)
    ELSE IF reply.StatusCode # StatusOK THEN Err(ErrStatus(reply))
    ELSE [value |-> Nil, err |-> Nil]

createBlockRequest(c, block) == Request(c, "POST", "/v1/block", <<>>, block)

createBlock(c, block, reply) == DecodeBlock(reply)

deleteBlockRequest(c, block) ==
    Request(c, "DELETE", "/v1/block", <<block.X, block.Y, block.Z>>, <<>>)

deleteBlock(c, block, reply) == ExpectOK(reply)

getBlockRequest(c, x, y, z) == Request(c, "GET", "/v1/block", <<x, y, z>>, <<>>)

getBlock(c, x, y, z, reply) == DecodeBlock(reply)

-----------------------------------------------------------------------------
(* The remote API (the Minecraft server), as the workshop documents it:     *)
(* it keeps the placed blocks by coordinate.  Each operator gives the       *)
(* replies the remote can give to a request and the world after each.       *)
Air == "minecraft:air"

blockResponse(xyz, material) ==
    [ID |-> xyz, X |-> xyz[1], Y |-> xyz[2], Z |-> xyz[3], Material |-> material]

Lost(w) == [reply |-> TransportFailure, world |-> w]

RemoteCreateBlock(w, block) ==
    LET xyz == <<block.X, block.Y, block.Z>>
        placed == [w EXCEPT !.blocks[xyz] = block.Material]
    IN  { Lost(w),
          [reply |-> HttpReply(500, TextBody("error")), world |-> w],
          [reply |-> HttpReply(StatusOK, JsonBody(blockResponse(xyz, block.Material))),
           world |-> placed],
          [reply |-> HttpReply(StatusOK, TextBody("")), world |-> placed] }

RemoteGetBlock(w, xyz) ==
    { Lost(w),
      IF w.blocks[xyz] = Air
      THEN [reply |-> HttpReply(404, TextBody("not found")), world |-> w]
      ELSE [reply |-> HttpReply(StatusOK, JsonBody(blockResponse(xyz, w.blocks[xyz]))),
            world |-> w] }

RemoteDeleteBlock(w, xyz) ==
    { Lost(w),
      IF w.blocks[xyz] = Air
      THEN [reply |-> HttpReply(404, TextBody("not found")), world |-> w]
      ELSE [reply |-> HttpReply(StatusOK, TextBody("")),
            world |-> [w EXCEPT !.blocks[xyz] = Air]] }

-----------------------------------------------------------------------------
(* fmt.Sprintf("%d_%d_%d", x, y, z): text is a sequence of characters.      *)
DigitChars == <<"0", "1", "2", "3", "4", "5", "6", "7", "8", "9">>

RECURSIVE FormatNat(_)
FormatNat(n) ==
    IF n < 10 THEN <<DigitChars[n + 1]>>
    ELSE FormatNat(n \div 10) \o <<DigitChars[(n % 10) + 1]>>

(* the verb %d *)
FormatInt(n) == IF n < 0 THEN <<"-">> \o FormatNat(-n) ELSE FormatNat(n)

(* An id with the signs dropped. *)
SprintfId_Unsigned(x, y, z) ==
    FormatNat(IF x < 0 THEN -x ELSE x) \o <<"_">> \o FormatNat(IF y < 0 THEN -y ELSE y)
    \o <<"_">> \o FormatNat(IF z < 0 THEN -z ELSE z)

SprintfId(x, y, z) ==
    FormatInt(x) \o <<"_">> \o FormatInt(y) \o <<"_">> \o FormatInt(z)

(* data.X.ValueBigFloat().Int64(): the declared numbers of the model are    *)
(* integers within the int64 range, which Int64() returns exactly.          *)
Int64(num) == num.value

-----------------------------------------------------------------------------
(* Block resource (unnamed/part_003, lines 1-225).                          *)
theClient == configureResp.resp.ResourceData[1]

(* The record of one handler call: its diagnostics, the HTTP exchanges it    *)
(* made (request and reply) and the files it opened (path and content).     *)
HandlerResp(op, diags, calls, reads) ==
    [op |-> op, Diagnostics |-> diags, calls |-> calls, reads |-> reads]

Exchange(req, reply) == [request |-> req, reply |-> reply]

ClientError(detail, err) ==
    AddError(NoDiagnostics, "Client Error", [text |-> detail, err |-> err])

(* req.Plan for Create: the declaration, the computed id still unknown.     *)
BlockPlanForCreate(cfg) ==
    [X |-> cfg.X, Y |-> cfg.Y, Z |-> cfg.Z, Material |-> cfg.Material,
     Id |-> StringUnknown]

(* req.Plan for Update: the declaration; id keeps its state value           *)
(* (resource.UseStateForUnknown, part_003 lines 79-86).                     *)
BlockPlanForUpdate(cfg, st) ==
    [X |-> cfg.X, Y |-> cfg.Y, Z |-> cfg.Z, Material |-> cfg.Material, Id |-> st.Id]

blockRequestOf(data) ==
    [X |-> Int64(data.X), Y |-> Int64(data.Y), Z |-> Int64(data.Z),
     Material |-> ValueString(data.Material)]

(* part_003 line 140 *)
BlockId(data) == StringValue(SprintfId(Int64(data.X), Int64(data.Y), Int64(data.Z)))

(* BlockResource.Create, part_003 lines 111-148.  The result is the         *)
(* response: the diagnostics and the state (unset when Create returns       *)
(* before resp.State.Set).                                                  *)
(* A Create that saves the state before it looks at the error. *)
BlockCreateResult_SaveFirst(data, r) ==
    [Diagnostics |-> IF r.err # Nil
                     THEN ClientError("Unable to create example, got error", r.err[1])
                     ELSE NoDiagnostics,
     State |-> Ptr([data EXCEPT !.Id = BlockId(data)])]

BlockCreateResult(data, r) ==
    IF r.err # Nil
    THEN [Diagnostics |-> ClientError("Unable to create example, got error", r.err[1]),
          State |-> Nil]
    ELSE [Diagnostics |-> NoDiagnostics,
          State |-> Ptr([data EXCEPT !.Id = BlockId(data)])]

BlockCreateStep ==
    /\ focus = "block"
    /\ configureResp.resp.ResourceData # Nil
    /\ blockState = Nil
    /\ LET data == BlockPlanForCreate(blockCfg)
           br == blockRequestOf(data)
       IN  \E o \in RemoteCreateBlock(world, br) :
             LET res == BlockCreateResult(data, createBlock(theClient, br, o.reply))
             IN  /\ world' = o.world
                 /\ blockState' = res.State
                 /\ lastResp' = HandlerResp("BlockCreate", res.Diagnostics,
                        <<Exchange(createBlockRequest(theClient, br), o.reply)>>, <<>>)
    /\ UNCHANGED <<providerVars, moreVars, focus, blockCfg, schemaVars>>

BlockCreate == BlockCreateStep /\ UNCHANGED planResp

(* BlockResource.Read, part_003 lines 150-172: on success the prior state   *)
(* is written back as it was read; on error the state is left alone.        *)
(* A Read that removes the resource from the state when getBlock fails. *)
BlockReadResult_DropOnError(data, r) ==
    IF r.err # Nil
    THEN [Diagnostics |-> ClientError("Unable to read example, got error", r.err[1]),
          State |-> Nil]
    ELSE [Diagnostics |-> NoDiagnostics, State |-> Ptr(data)]

(* A Read that refreshes material from what the remote returned. *)
BlockReadResult_Refresh(data, r) ==
    IF r.err # Nil
    THEN [Diagnostics |-> ClientError("Unable to read example, got error", r.err[1]),
          State |-> Ptr(data)]
    ELSE [Diagnostics |-> NoDiagnostics,
          State |-> Ptr([data EXCEPT !.Material = StringValue(r.value[1].Material)])]

BlockReadResult(data, r) ==
    IF r.err # Nil
    THEN [Diagnostics |-> ClientError("Unable to read example, got error", r.err[1]),
          State |-> Ptr(data)]
    ELSE [Diagnostics |-> NoDiagnostics, State |-> Ptr(data)]

BlockReadStep ==
    /\ focus = "block"
    /\ blockState # Nil
    /\ LET data == blockState[1]
           x == Int64(data.X)
           y == Int64(data.Y)
           z == Int64(data.Z)
       IN  \E o \in RemoteGetBlock(world, <<x, y, z>>) :
             LET res == BlockReadResult(data, getBlock(theClient, x, y, z, o.reply))
             IN  /\ world' = o.world
                 /\ blockState' = res.State
                 /\ lastResp' = HandlerResp("BlockRead", res.Diagnostics,
                        <<Exchange(getBlockRequest(theClient, x, y, z), o.reply)>>, <<>>)
    /\ UNCHANGED <<providerVars, moreVars, focus, blockCfg, schemaVars>>

BlockRead == BlockReadStep /\ UNCHANGED planResp

(* BlockResource.Update, part_003 lines 174-194: the plan is read and saved *)
(* as the new state; no client method is called.                            *)
(* An Update that returns without resp.State.Set: the response keeps the    *)
(* prior state.                                                             *)
BlockUpdateResult_NoSet(plan, prior) == [Diagnostics |-> NoDiagnostics, State |-> Ptr(prior)]

BlockUpdateResult(plan, prior) == [Diagnostics |-> NoDiagnostics, State |-> Ptr(plan)]

BlockUpdateStep ==
    /\ focus = "block"
    /\ blockState # Nil
    /\ LET res == BlockUpdateResult(BlockPlanForUpdate(blockCfg, blockState[1]), blockState[1])
       IN  /\ blockState' = res.State
           /\ lastResp' = HandlerResp("BlockUpdate", res.Diagnostics, <<>>, <<>>)
    /\ UNCHANGED <<providerVars, moreVars, focus, blockCfg, world, schemaVars>>

BlockUpdate == BlockUpdateStep /\ UNCHANGED planResp

(* BlockResource.Delete, part_003 lines 196-221.  The framework removes the *)
(* resource from state when Delete returns without an error diagnostic.     *)
(* A Delete that takes a failed deleteBlock as done. *)
BlockDeleteResult_Idempotent(data, r) == [Diagnostics |-> NoDiagnostics, State |-> Nil]

BlockDeleteResult(data, r) ==
    IF r.err # Nil
    THEN [Diagnostics |-> ClientError("Unable to read example, got error", r.err[1]),
          State |-> Ptr(data)]
    ELSE [Diagnostics |-> NoDiagnostics, State |-> Nil]

BlockDeleteStep ==
    /\ focus = "block"
    /\ blockState # Nil
    /\ LET data == blockState[1]
           br == [X |-> Int64(data.X), Y |-> Int64(data.Y), Z |-> Int64(data.Z),
                  Material |-> ""]
       IN  \E o \in RemoteDeleteBlock(world, <<br.X, br.Y, br.Z>>) :
             LET res == BlockDeleteResult(data, deleteBlock(theClient, br, o.reply))
             IN  /\ world' = o.world
                 /\ blockState' = res.State
                 /\ lastResp' = HandlerResp("BlockDelete", res.Diagnostics,
                        <<Exchange(deleteBlockRequest(theClient, br), o.reply)>>, <<>>)
    /\ UNCHANGED <<providerVars, moreVars, focus, blockCfg, schemaVars>>

BlockDelete == BlockDeleteStep /\ UNCHANGED planResp

-----------------------------------------------------------------------------
(* calculateHashFromFile (provider_final/schema_resource.go lines 236-250,  *)
(* provider/schema_resource.go lines 249-263).                              *)
ReadFile(files, path) == IF path \in DOMAIN files THEN files[path] ELSE Nil

(* crypto/sha256 is a library: its digest is modelled by a 32-byte value    *)
(* computed from the content, collision-free on the contents of the model.  *)
RECURSIVE Mix(_, _)
Mix(bytes, acc) ==
    IF bytes = <<>> THEN acc
    ELSE Mix(Tail(bytes), (acc * 257 + Head(bytes) + 1) % 65521)

Sha256Sum(bytes) ==
    LET m == Mix(bytes, 1)
    IN  [i \in 1..32 |-> IF i = 1 THEN m \div 256
                         ELSE IF i = 2 THEN m % 256
                         ELSE (m * i + i) % 256]

(* base64.StdEncoding.EncodeToString *)
B64 ==
    << "A", "B", "C", "D", "E", "F", "G", "H", "I", "J", "K", "L", "M", "N", "O", "P",
       "Q", "R", "S", "T", "U", "V", "W", "X", "Y", "Z", "a", "b", "c", "d", "e", "f",
       "g", "h", "i", "j", "k", "l", "m", "n", "o", "p", "q", "r", "s", "t", "u", "v",
       "w", "x", "y", "z", "0", "1", "2", "3", "4", "5", "6", "7", "8", "9", "+", "/" >>

RECURSIVE EncodeToString(_)
EncodeToString(bs) ==
    IF Len(bs) = 0 THEN ""
    ELSE IF Len(bs) = 1
    THEN B64[(bs[1] \div 4) + 1] \o B64[((bs[1] % 4) * 16) + 1] \o "=="
    ELSE IF Len(bs) = 2
    THEN B64[(bs[1] \div 4) + 1] \o B64[((bs[1] % 4) * 16 + (bs[2] \div 16)) + 1]
         \o B64[((bs[2] % 16) * 4) + 1] \o "="
    ELSE B64[(bs[1] \div 4) + 1] \o B64[((bs[1] % 4) * 16 + (bs[2] \div 16)) + 1]
         \o B64[((bs[2] % 16) * 4 + (bs[3] \div 64)) + 1] \o B64[(bs[3] % 64) + 1]
         \o EncodeToString(SubSeq(bs, 4, Len(bs)))

(* A digest of the length of the content only. *)
HashOfBytes_Length(bytes) == EncodeToString(Sha256Sum(<<Len(bytes)>>))

HashOfBytes(bytes) == EncodeToString(Sha256Sum(bytes))

calculateHashFromFile(file) ==
    IF file = Nil
    THEN [hash |-> "", err |-> Ptr([msg |-> "unable to generate hash for schema file"])]
    ELSE [hash |-> HashOfBytes(file[1]), err |-> Nil]

-----------------------------------------------------------------------------
(* client.go, schema methods.                                               *)
createSchemaRequest(c, schema, file) ==
    [Method |-> "POST", base |-> c.baseURL, path |-> "/v1/schema",
     args |-> <<schema.X, schema.Y, schema.Z, schema.Rotation>>,
     Header |-> [XAPIKey |-> c.apiKey, ContentType |-> "application/zip"],
     Body |-> file[1]]

(* client.createSchema, lines 133-160: the file is opened first; no request *)
(* is sent when it cannot be opened.                                        *)
createSchema(c, schema, file, reply) ==
    IF file = Nil
    THEN Err([msg |-> "unable to open schema file", file |-> schema.Schema])
    ELSE IF reply.kind = "transport" THEN Err(ErrExecute)
    ELSE IF reply.StatusCode # StatusOK THEN Err(ErrStatus(reply))
    ELSE Ok(reply.Body.text)

(* An undo request that leaves the id out of the URL. *)
undoSchemaRequest_NoId(c, undoID) == Request(c, "DELETE", "/v1/schema/undo", <<"">>, <<>>)

undoSchemaRequest(c, undoID) == Request(c, "DELETE", "/v1/schema/undo", <<undoID>>, <<>>)

undoSchema(c, undoID, reply) == ExpectOK(reply)

getSchemaDetailsRequest(c, undoID) ==
    Request(c, "GET", "/v1/schema/details", <<undoID>>, <<>>)

(* A getSchemaDetails that takes a server error as an error. *)
getSchemaDetails_ServerError(c, undoID, reply) ==
    IF reply.kind = "transport" THEN Err(ErrExecute)
    ELSE IF reply.StatusCode >= 500 THEN Err(ErrStatus(reply))
    ELSE IF reply.StatusCode # StatusOK THEN [value |-> Nil, err |-> Nil]
    ELSE IF ~reply.Body.json THEN Err(ErrDecode("unable to decode response"))
    ELSE Ok(reply.Body.value)

(* client.getSchemaDetails, lines 193-218: a status other than 200 gives    *)
(* (nil, nil).                                                              *)
getSchemaDetails(c, undoID, reply) ==
    IF reply.kind = "transport" THEN Err(ErrExecute)
    ELSE IF reply.StatusCode # StatusOK THEN [value |-> Nil, err |-> Nil]
    ELSE IF ~reply.Body.json THEN Err(ErrDecode("unable to decode response"))
    ELSE Ok(reply.Body.value)

(* The remote's schema API: it issues an id for each schema it applies and  *)
(* forgets the id when the schema is undone.                                *)
IdText(n) == "schema-" \o ToString(n)

schemaDetailsResponse ==
    [StartX |-> 0, StartY |-> 0, StartZ |-> 0, EndX |-> 1, EndY |-> 1, EndZ |-> 1]

RemoteCreateSchema(w, limit) ==
    { Lost(w), [reply |-> HttpReply(500, TextBody("error")), world |-> w] }
    \cup
    IF w.issued < limit
    THEN { [reply |-> HttpReply(StatusOK, TextBody(IdText(w.issued + 1))),
            world |-> [w EXCEPT !.issued = @ + 1,
                                !.schemas = @ \cup {IdText(w.issued + 1)}]] }
    ELSE {}

RemoteGetSchemaDetails(w, id) ==
    { Lost(w),
      [reply |-> HttpReply(500, TextBody("error")), world |-> w] }
    \cup
    IF id \in w.schemas
    THEN { [reply |-> HttpReply(StatusOK, JsonBody(schemaDetailsResponse)), world |-> w],
           [reply |-> HttpReply(StatusOK, TextBody("")), world |-> w] }
    ELSE { [reply |-> HttpReply(404, TextBody("not found")), world |-> w] }

RemoteUndoSchema(w, id) ==
    { Lost(w),
      IF id \in w.schemas
      THEN [reply |-> HttpReply(StatusOK, TextBody("")),
            world |-> [w EXCEPT !.schemas = @ \ {id}]]
      ELSE [reply |-> HttpReply(404, TextBody("not found")), world |-> w] }

-----------------------------------------------------------------------------
(* Schema resource: provider/schema_resource.go (build "provider") and      *)
(* provider_final/schema_resource.go (the other builds).                    *)
SchemaDeclared == {"X", "Y", "Z", "Rotation", "Schema"}

SameDeclaration(cfg, st) == \A a \in SchemaDeclared : cfg[a] = st[a]

WithDeclaration(cfg, id, hash) ==
    [X |-> cfg.X, Y |-> cfg.Y, Z |-> cfg.Z, Rotation |-> cfg.Rotation,
     Schema |-> cfg.Schema, SchemaHash |-> hash, Id |-> id]

(* req.Plan for Create: the computed attributes are unknown.                *)
SchemaPlanForCreate(cfg) == WithDeclaration(cfg, StringUnknown, StringUnknown)

(* The plan the framework proposes for a resource that exists: the prior    *)
(* state when the declaration has not changed; otherwise the declaration    *)
(* with id kept (UseStateForUnknown) and schema_hash, computed, unknown.    *)
SchemaProposedPlan(cfg, st) ==
    IF SameDeclaration(cfg, st) THEN st
    ELSE WithDeclaration(cfg, st.Id, StringUnknown)

schemaRequestOf(data) ==
    [X |-> Int64(data.X), Y |-> Int64(data.Y), Z |-> Int64(data.Z),
     Rotation |-> Int64(data.Rotation), Schema |-> ValueString(data.Schema)]

FileRead(path, file) == [path |-> path, file |-> file]

(* SchemaResource.Create after createSchema has returned id without error:  *)
(* provider_final lines 161-174.  The error of the hashing is reported and  *)
(* the state is written all the same.                                       *)
(* A Create that saves the id and leaves schema_hash as planned. *)
SchemaCreateFinish_final_NoHash(data, id, h) ==
    [Diagnostics |-> NoDiagnostics, State |-> Ptr([data EXCEPT !.Id = StringValue(id)])]

(* A Create that returns when the hashing fails, before the state is set. *)
SchemaCreateFinish_final_ReturnOnHashError(data, id, h) ==
    IF h.err # Nil
    THEN [Diagnostics |-> AddError(NoDiagnostics, "Unable to generate hash for file", h.err[1]),
          State |-> Nil]
    ELSE [Diagnostics |-> NoDiagnostics,
          State |-> Ptr([data EXCEPT !.Id = StringValue(id),
                                     !.SchemaHash = StringValue(h.hash)])]

SchemaCreateFinish_final(data, id, h) ==
    LET withId == [data EXCEPT !.Id = StringValue(id)]
        diags == IF h.err # Nil
                 THEN AddError(NoDiagnostics, "Unable to generate hash for file", h.err[1])
                 ELSE NoDiagnostics
    IN  [Diagnostics |-> diags,
         State |-> Ptr([withId EXCEPT !.SchemaHash = StringValue(h.hash)])]

(* provider/schema_resource.go lines 193-206: the error of the hashing is   *)
(* dropped.                                                                 *)
SchemaCreateFinish_provider(data, id, h) ==
    LET withHash == [data EXCEPT !.SchemaHash = StringValue(h.hash)]
    IN  [Diagnostics |-> NoDiagnostics,
         State |-> Ptr([withHash EXCEPT !.Id = StringValue(id)])]

SchemaCreateFinishResult(b, data, id, h) ==
    IF b = "provider" THEN SchemaCreateFinish_provider(data, id, h)
    ELSE SchemaCreateFinish_final(data, id, h)

SchemaIdle == focus = "schema" /\ configureResp.resp.ResourceData # Nil /\ pending = Nil

(* data.Rotation.ValueBigFloat().Int64() (provider lines 177, provider_final *)
(* line 145): ValueBigFloat() of a null number is a nil *big.Float, and     *)
(* Int64() on it dereferences nil: the handler panics and the plugin        *)
(* process ends without a response.                                         *)
Panic(op) ==
    [op |-> op, Diagnostics |-> NoDiagnostics, calls |-> <<>>, reads |-> <<>>,
     panic |-> "invalid memory address or nil pointer dereference"]

Panicked(resp) == "panic" \in DOMAIN resp

(* SchemaResource.Create up to the return of createSchema                   *)
(* (provider_final lines 132-159, provider lines 164-191).                  *)
SchemaCreateUploadStep ==
    /\ SchemaIdle
    /\ schemaState = Nil
    /\ LET data == SchemaPlanForCreate(schemaCfg)
           sr == schemaRequestOf(data)
           file == ReadFile(fs, sr.Schema)
           reads == <<FileRead(sr.Schema, file)>>
           failed(err, calls) ==
               /\ lastResp' = HandlerResp("SchemaCreate",
                      ClientError("Unable to create example, got error", err), calls, reads)
               /\ pending' = Nil
       IN  IF IsNull(data.Rotation)
           THEN /\ lastResp' = Panic("SchemaCreate")
                /\ pending' = Nil
                /\ world' = world
           ELSE IF file = Nil
           THEN /\ failed(createSchema(theClient, sr, file, TransportFailure).err[1], <<>>)
                /\ world' = world
           ELSE \E o \in RemoteCreateSchema(world, MaxSchemas) :
                  LET r == createSchema(theClient, sr, file, o.reply)
                      calls == <<Exchange(createSchemaRequest(theClient, sr, file), o.reply)>>
                  IN  /\ world' = o.world
                      /\ IF r.err # Nil
                         THEN failed(r.err[1], calls)
                         ELSE /\ pending' = Ptr([data |-> data, id |-> r.value[1],
                                                 calls |-> calls, reads |-> reads])
                              /\ lastResp' = lastResp
    /\ UNCHANGED <<providerVars, moreVars, focus, blockVars, schemaCfg, schemaState, fs>>

SchemaCreateUpload == SchemaCreateUploadStep /\ UNCHANGED planResp

(* SchemaResource.Create from the hashing of the file to resp.State.Set.    *)
SchemaCreateFinishStep ==
    /\ focus = "schema"
    /\ pending # Nil
    /\ LET p == pending[1]
           path == ValueString(p.data.Schema)
           file == ReadFile(fs, path)
           res == SchemaCreateFinishResult(build, p.data, p.id, calculateHashFromFile(file))
       IN  /\ schemaState' = res.State
           /\ lastResp' = HandlerResp("SchemaCreate", res.Diagnostics, p.calls,
                                      Append(p.reads, FileRead(path, file)))
    /\ pending' = Nil
    /\ UNCHANGED <<providerVars, moreVars, focus, world, blockVars, schemaCfg, fs>>

SchemaCreateFinish == SchemaCreateFinishStep /\ UNCHANGED planResp

(* SchemaResource.Read: provider_final lines 177-199 writes the state back  *)
(* as it was read, provider lines 209-226 leaves the response state alone.  *)
(* A Read that takes a missing schema (no details, no error) as deleted and *)
(* removes the resource from the state.                                     *)
SchemaReadResult_DropMissing(b, data, r) ==
    IF r.err # Nil
    THEN [Diagnostics |-> ClientError("Unable to read schema, got error", r.err[1]),
          State |-> Ptr(data)]
    ELSE [Diagnostics |-> NoDiagnostics,
          State |-> IF r.value = Nil THEN Nil ELSE Ptr(data)]

SchemaReadResult(b, data, r) ==
    IF r.err # Nil
    THEN [Diagnostics |-> ClientError("Unable to read schema, got error", r.err[1]),
          State |-> Ptr(data)]
    ELSE [Diagnostics |-> NoDiagnostics, State |-> Ptr(data)]

(* A Read without the check of the id. *)
HasPersistedId_Unchecked(data) == TRUE

(* `if data.Id.IsNull() { return }`: provider_final line 186, provider      *)
(* line 217.                                                                *)
HasPersistedId(data) == ~IsNull(data.Id)

SchemaReadStep ==
    /\ SchemaIdle
    /\ schemaState # Nil
    /\ LET data == schemaState[1]
           id == ValueString(data.Id)
       IN  IF ~HasPersistedId(data)
           THEN /\ lastResp' = HandlerResp("SchemaRead", NoDiagnostics, <<>>, <<>>)
                /\ UNCHANGED <<world, schemaState>>
           ELSE \E o \in RemoteGetSchemaDetails(world, id) :
                  LET res == SchemaReadResult(build, data,
                                              getSchemaDetails(theClient, id, o.reply))
                  IN  /\ world' = o.world
                      /\ schemaState' = res.State
                      /\ lastResp' = HandlerResp("SchemaRead", res.Diagnostics,
                             <<Exchange(getSchemaDetailsRequest(theClient, id), o.reply)>>,
                             <<>>)
    /\ UNCHANGED <<providerVars, moreVars, focus, blockVars, schemaCfg, fs, pending>>

SchemaRead == SchemaReadStep /\ UNCHANGED planResp

(* SchemaResource.Update: provider_final lines 201-213 saves the plan as    *)
(* the state; provider lines 228-230 is an empty method, which leaves the   *)
(* response state at the prior state.                                       *)
SchemaUpdate_final(plan, prior) == [Diagnostics |-> NoDiagnostics, State |-> Ptr(plan)]

SchemaUpdate_provider(plan, prior) == [Diagnostics |-> NoDiagnostics, State |-> Ptr(prior)]

SchemaUpdateResult(b, plan, prior) ==
    IF b = "provider" THEN SchemaUpdate_provider(plan, prior)
    ELSE SchemaUpdate_final(plan, prior)

SchemaUpdateStep ==
    /\ SchemaIdle
    /\ schemaState # Nil
    /\ LET res == SchemaUpdateResult(build, SchemaProposedPlan(schemaCfg, schemaState[1]),
                                     schemaState[1])
       IN  /\ schemaState' = res.State
           /\ lastResp' = HandlerResp("SchemaUpdate", res.Diagnostics, <<>>, <<>>)
    /\ UNCHANGED <<providerVars, moreVars, focus, world, blockVars, schemaCfg, fs, pending>>

SchemaUpdate == SchemaUpdateStep /\ UNCHANGED planResp

(* SchemaResource.Delete: provider_final lines 215-230, provider 232-247.   *)
SchemaDeleteResult(data, r) ==
    IF r.err # Nil
    THEN [Diagnostics |-> ClientError("Unable to delete schema, got error", r.err[1]),
          State |-> Ptr(data)]
    ELSE [Diagnostics |-> NoDiagnostics, State |-> Nil]

SchemaDeleteStep ==
    /\ SchemaIdle
    /\ schemaState # Nil
    /\ LET data == schemaState[1]
           id == ValueString(data.Id)
           req == undoSchemaRequest(theClient, id)
       IN  \E o \in RemoteUndoSchema(world, req.args[1]) :
             LET res == SchemaDeleteResult(data, undoSchema(theClient, id, o.reply))
             IN  /\ world' = o.world
                 /\ schemaState' = res.State
                 /\ lastResp' = HandlerResp("SchemaDelete", res.Diagnostics,
                                            <<Exchange(req, o.reply)>>, <<>>)
    /\ UNCHANGED <<providerVars, moreVars, focus, blockVars, schemaCfg, fs, pending>>

SchemaDelete == SchemaDeleteStep /\ UNCHANGED planResp

-----------------------------------------------------------------------------
(* Planning.  The attribute plan modifiers are those of the resource        *)
(* schemas: part_003 lines 41-89 (block), provider_final/schema_resource.go *)
(* lines 52-110 and provider/schema_resource.go lines 76-142 (schema).      *)
(* A block schema whose material may be changed in place. *)
BlockAttributes_MaterialInPlace ==
    [X |-> <<"RequiresReplace">>, Y |-> <<"RequiresReplace">>,
     Z |-> <<"RequiresReplace">>, Material |-> <<>>,
     Id |-> <<"UseStateForUnknown">>]

BlockAttributes ==
    [X |-> <<"RequiresReplace">>, Y |-> <<"RequiresReplace">>,
     Z |-> <<"RequiresReplace">>, Material |-> <<"RequiresReplace">>,
     Id |-> <<"UseStateForUnknown">>]

SchemaAttributes ==
    [X |-> <<"RequiresReplace">>, Y |-> <<"RequiresReplace">>,
     Z |-> <<"RequiresReplace">>, Rotation |-> <<"RequiresReplace">>,
     Schema |-> <<"RequiresReplace">>,
     SchemaHash |-> <<"schemaPlanModifier", "RequiresReplace">>,
     Id |-> <<"UseStateForUnknown">>]

BlockDeclared == {"X", "Y", "Z", "Material"}

HasModifier(attrs, a, m) == \E i \in 1..Len(attrs[a]) : attrs[a][i] = m

(* resource.RequiresReplace(): when the resource is updated, an attribute   *)
(* whose planned value differs from its state value requires replacement.   *)
RequiresReplacePaths(attrs, plan, st) ==
    { a \in DOMAIN attrs : HasModifier(attrs, a, "RequiresReplace") /\ plan[a] # st[a] }

(* req.Plan.GetAttribute(ctx, path, &s) into a Go string that starts as "": *)
(* a null or unknown value leaves it "".                                    *)
GetAttributeString(v) == ValueString(v)

SchemaFileChanged(schema, schemaHash, newHash) ==
    <<"The file ", schema,
      " has changed from when the resource was originally created, this forces the destruction of the resource. Old file hash: ",
      schemaHash, ", New file hash: ", newHash>>

SchemaFileChangedOld(schema) ==
    <<"The file ", schema,
      " has changed from when the resource was originally created, this forces the destruction of the resource.">>

(* schemaPlanModifier.PlanModifyString, provider_final lines 262-288.       *)
PlanModifyString(plan, planValue, files) ==
    LET schema == GetAttributeString(plan.Schema)
        schemaHash == GetAttributeString(plan.SchemaHash)
        newHash == calculateHashFromFile(ReadFile(files, schema)).hash
        untouched == [PlanValue |-> planValue, RequiresReplace |-> FALSE,
                      Diagnostics |-> NoDiagnostics]
    IN  IF schemaHash = "" THEN untouched
        ELSE IF newHash # schemaHash
        THEN [PlanValue |-> StringValue(newHash), RequiresReplace |-> TRUE,
              Diagnostics |-> AddWarning(NoDiagnostics, "Schema File Changed",
                                         SchemaFileChanged(schema, schemaHash, newHash))]
        ELSE untouched

(* schemaPlanModifier.Modify, provider/schema_resource.go lines 54-70.      *)
Modify(plan, planValue, files) ==
    LET schema == GetAttributeString(plan.Schema)
        newHash == calculateHashFromFile(ReadFile(files, schema)).hash
    IN  [PlanValue |-> StringValue(newHash), RequiresReplace |-> TRUE,
         Diagnostics |-> AddWarning(NoDiagnostics, "Schema File Changed",
                                    SchemaFileChangedOld(schema))]

SchemaHashModifier(b, plan, planValue, files) ==
    IF b = "provider" THEN Modify(plan, planValue, files)
    ELSE PlanModifyString(plan, planValue, files)

(* The plan of one resource: the proposed state after the attribute plan    *)
(* modifiers, the attributes that require replacement, the diagnostics.     *)
BlockPlanResourceChange(cfg, prior) ==
    IF prior = Nil
    THEN [PlannedState |-> BlockPlanForCreate(cfg), RequiresReplace |-> {},
          Diagnostics |-> NoDiagnostics]
    ELSE LET plan == BlockPlanForUpdate(cfg, prior[1])
         IN  [PlannedState |-> plan,
              RequiresReplace |-> RequiresReplacePaths(BlockAttributes, plan, prior[1]),
              Diagnostics |-> NoDiagnostics]

SchemaPlanResourceChange(b, cfg, prior, files) ==
    LET proposed == IF prior = Nil THEN SchemaPlanForCreate(cfg)
                    ELSE SchemaProposedPlan(cfg, prior[1])
        m == SchemaHashModifier(b, proposed, proposed.SchemaHash, files)
        plan == [proposed EXCEPT !.SchemaHash = m.PlanValue]
        changed == IF prior = Nil THEN {}
                   ELSE RequiresReplacePaths(SchemaAttributes, plan, prior[1])
    IN  [PlannedState |-> plan,
         RequiresReplace |-> changed \cup (IF m.RequiresReplace THEN {"SchemaHash"} ELSE {}),
         Diagnostics |-> m.Diagnostics,
         request |-> proposed,
         modifier |-> m]

(* What the host does with a plan: create what does not exist, replace      *)
(* (Delete, then Create) when an attribute that requires replacement has    *)
(* changed, update when anything else has changed.                          *)
PlannedAction(prior, res) ==
    IF prior = Nil THEN "create"
    ELSE IF \E a \in res.RequiresReplace : res.PlannedState[a] # prior[1][a] THEN "replace"
    ELSE IF res.PlannedState # prior[1] THEN "update"
    ELSE "noop"

HandlersOf(action) ==
    IF action = "create" THEN <<"Create">>
    ELSE IF action = "replace" THEN <<"Delete", "Create">>
    ELSE IF action = "update" THEN <<"Update">>
    ELSE <<>>

NoPlan == [done |-> FALSE, action |-> "none", todo |-> <<>>, result |-> Nil]

PlanOf(prior, res) ==
    [done |-> TRUE, action |-> PlannedAction(prior, res),
     todo |-> HandlersOf(PlannedAction(prior, res)), result |-> Ptr(res)]

-----------------------------------------------------------------------------
(* The declarations, files and worlds of the model.                         *)
BlockDecl(x, y, z, material) ==
    [X |-> NumberValue(x), Y |-> NumberValue(y), Z |-> NumberValue(z),
     Material |-> StringValue(material)]

BlockBase == BlockDecl(-1273, 24, 288, "minecraft:stone")

BlockDecls ==
    {BlockBase, BlockDecl(-1273, 25, 288, "minecraft:stone"),
     BlockDecl(-1273, 24, 289, "minecraft:stone"),
     BlockDecl(-1273, 24, 288, "minecraft:dirt")}
    \cup {BlockDecl(x, 24, 288, "minecraft:stone") : x \in 0..MaxCoord}

(* The declarations the free host of Spec switches between. *)
BlockEdits ==
    {BlockBase, BlockDecl(-1273, 24, 288, "minecraft:dirt")}
    \cup {BlockDecl(x, 24, 288, "minecraft:stone") : x \in 0..MaxCoord}

Coords == { <<Int64(d.X), Int64(d.Y), Int64(d.Z)>> : d \in BlockDecls }

Materials == { ValueString(d.Material) : d \in BlockDecls }

SchemaDecl(x, y, z, rotation, schema) ==
    [X |-> NumberValue(x), Y |-> NumberValue(y), Z |-> NumberValue(z),
     Rotation |-> NumberValue(rotation), Schema |-> StringValue(schema)]

SchemaBase == SchemaDecl(-1278, 24, 288, 270, "car.zip")

SchemaDecls ==
    {SchemaBase, SchemaDecl(1, 24, 288, 270, "car.zip"),
     SchemaDecl(-1278, 2, 288, 270, "car.zip"), SchemaDecl(-1278, 24, 3, 270, "car.zip"),
     SchemaDecl(-1278, 24, 288, 90, "car.zip"),
     SchemaDecl(-1278, 24, 288, 270, "truck.zip")}

SchemaEdits == {SchemaBase, SchemaDecl(-1278, 24, 288, 90, "car.zip")}

Paths == { ValueString(d.Schema) : d \in SchemaDecls }

FileContents == { <<b>> : b \in 0..MaxByte }

Files == {Nil} \cup { Ptr(c) : c \in FileContents }

InitWorld == [blocks |-> [c \in Coords |-> Air], schemas |-> {}, issued |-> 0]

NoResp == HandlerResp("none", NoDiagnostics, <<>>, <<>>)

(* A provider block that configures a client in every build.                *)
ProviderDeclared == [Endpoint |-> StringValue("A"), APIKey |-> StringValue("B")]

EmptyEnv == [MINECRAFT_ENDPOINT |-> "", MINECRAFT_APIKEY |-> ""]

Configured(b) == [done |-> TRUE, resp |-> Configure(b, ProviderDeclared, EmptyEnv)]

(* Changes made outside the provider: the declaration is edited, a block    *)
(* of the world is replaced or removed, a schema is undone, the declared    *)
(* schema file is rewritten or removed.                                     *)
BlockConfigChange ==
    /\ focus = "block"
    /\ \E d \in BlockEdits : d # blockCfg /\ blockCfg' = d
    /\ UNCHANGED <<providerVars, moreVars, focus, world, blockState, schemaVars, planResp, lastResp>>

SchemaConfigChange ==
    /\ focus = "schema"
    /\ \E d \in SchemaEdits : d # schemaCfg /\ schemaCfg' = d
    /\ UNCHANGED <<providerVars, moreVars, focus, world, blockVars, schemaState, fs, pending,
                   planResp, lastResp>>

WorldBlockChange ==
    /\ focus \in {"block", "data"}
    /\ \E d \in BlockEdits, m \in Materials \cup {Air} :
         LET c == <<Int64(d.X), Int64(d.Y), Int64(d.Z)>> IN
         /\ world.blocks[c] # m
         /\ world' = [world EXCEPT !.blocks[c] = m]
    /\ UNCHANGED <<providerVars, moreVars, focus, blockVars, schemaVars, planResp, lastResp>>

WorldSchemaUndo ==
    /\ focus = "schema"
    /\ \E id \in world.schemas : world' = [world EXCEPT !.schemas = @ \ {id}]
    /\ UNCHANGED <<providerVars, moreVars, focus, blockVars, schemaVars, planResp, lastResp>>

FileWrite ==
    /\ focus = "schema"
    /\ \E p \in {ValueString(schemaCfg.Schema)}, c \in FileContents :
         /\ fs[p] # Ptr(c)
         /\ fs' = [fs EXCEPT ![p] = Ptr(c)]
    /\ UNCHANGED <<providerVars, moreVars, focus, world, blockVars, schemaCfg, schemaState, pending,
                   planResp, lastResp>>

FileRemove ==
    /\ focus = "schema"
    /\ \E p \in {ValueString(schemaCfg.Schema)} : fs[p] # Nil /\ fs' = [fs EXCEPT ![p] = Nil]
    /\ UNCHANGED <<providerVars, moreVars, focus, world, blockVars, schemaCfg, schemaState, pending,
                   planResp, lastResp>>

-----------------------------------------------------------------------------
(* SpecConfigure: MinecraftProvider.Configure on every provider block and   *)
(* environment of the model.                                                *)
(* The data source before any read of it. *)
DataBase == [X |-> NumberValue(-1273), Y |-> NumberValue(24), Z |-> NumberValue(288)]

InitMore ==
    /\ dataCfg = DataBase
    /\ dataState = Nil
    /\ inst = <<>>
    /\ serial = <<>>

Defaults ==
    /\ InitMore
    /\ focus = "block"
    /\ world = InitWorld
    /\ blockCfg = BlockBase
    /\ blockState = Nil
    /\ schemaCfg = SchemaBase
    /\ schemaState = Nil
    /\ fs = [p \in Paths |-> Ptr(<<0>>)]
    /\ pending = Nil
    /\ planResp = NoPlan
    /\ lastResp = NoResp

InitConfigure == InitProvider /\ Defaults

NextConfigure == ProviderConfigure

SpecConfigure == InitConfigure /\ [][NextConfigure]_vars

(* Spec: a configured provider and a host that may call any handler of one  *)
(* resource at any time, while the files and the remote world change.       *)
Init ==
    /\ InitMore
    /\ focus \in {"block", "schema"}
    /\ build \in IF focus = "block" THEN {"provider"} ELSE {"provider", "provider_final"}
    /\ env = EmptyEnv
    /\ providerData = ProviderDeclared
    /\ configureResp = NotConfigured
    /\ world = InitWorld
    /\ blockCfg = BlockBase
    /\ blockState = Nil
    /\ schemaCfg = SchemaBase
    /\ schemaState = Nil
    /\ fs = [p \in Paths |-> Ptr(<<0>>)]
    /\ pending = Nil
    /\ planResp = NoPlan
    /\ lastResp = NoResp

Next ==
    \/ ProviderConfigure
    \/ BlockConfigChange
    \/ WorldBlockChange
    \/ BlockCreate
    \/ BlockRead
    \/ BlockUpdate
    \/ BlockDelete
    \/ SchemaConfigChange
    \/ WorldSchemaUndo
    \/ FileWrite
    \/ FileRemove
    \/ SchemaCreateUpload
    \/ SchemaCreateFinish
    \/ SchemaRead
    \/ SchemaUpdate
    \/ SchemaDelete

Spec == Init /\ [][Next]_vars

-----------------------------------------------------------------------------
(* The host plans, then calls the handlers of the plan in order.  An error  *)
(* diagnostic ends the apply.                                               *)
HostIdle == configureResp.resp.ResourceData # Nil /\ planResp.todo = <<>> /\ pending = Nil

BlockPlan ==
    /\ focus = "block"
    /\ HostIdle
    /\ planResp' = PlanOf(blockState, BlockPlanResourceChange(blockCfg, blockState))
    /\ UNCHANGED <<providerVars, moreVars, focus, world, blockVars, schemaVars, lastResp>>

SchemaPlan ==
    /\ focus = "schema"
    /\ HostIdle
    /\ planResp' = PlanOf(schemaState,
                          SchemaPlanResourceChange(build, schemaCfg, schemaState, fs))
    /\ UNCHANGED <<providerVars, moreVars, focus, world, blockVars, schemaVars, lastResp>>

Remaining(todo, resp) == IF HasError(resp.Diagnostics) THEN <<>> ELSE Tail(todo)

BlockApply ==
    /\ focus = "block"
    /\ planResp.todo # <<>>
    /\ IF Head(planResp.todo) = "Create" THEN BlockCreateStep
       ELSE IF Head(planResp.todo) = "Delete" THEN BlockDeleteStep
       ELSE BlockUpdateStep
    /\ planResp' = [planResp EXCEPT !.todo = Remaining(@, lastResp')]

SchemaApply ==
    /\ focus = "schema"
    /\ planResp.todo # <<>>
    /\ IF Head(planResp.todo) = "Create" THEN SchemaCreateUploadStep
       ELSE IF Head(planResp.todo) = "Delete" THEN SchemaDeleteStep
       ELSE SchemaUpdateStep
    /\ planResp' = [planResp EXCEPT !.todo = Remaining(@, lastResp')]

(* The declaration is edited between applies; the plan made for the old     *)
(* declaration is dropped.                                                  *)
HostBlockEdit ==
    /\ focus = "block"
    /\ HostIdle
    /\ \E d \in BlockDecls : d # blockCfg /\ blockCfg' = d
    /\ planResp' = NoPlan
    /\ UNCHANGED <<providerVars, moreVars, focus, world, blockState, schemaVars, lastResp>>

HostSchemaEdit ==
    /\ focus = "schema"
    /\ HostIdle
    /\ \E d \in SchemaDecls : d # schemaCfg /\ schemaCfg' = d
    /\ planResp' = NoPlan
    /\ UNCHANGED <<providerVars, moreVars, focus, world, blockVars, schemaState, fs, pending, lastResp>>

(* SpecPlan: one plan of a schema resource, for every declaration, prior    *)
(* state and content of the files.                                          *)
StoredHashes == {""} \cup { HashOfBytes(c) : c \in FileContents }

StoredSchemas ==
    { WithDeclaration(d, StringValue(IdText(1)), StringValue(h)) :
        d \in SchemaDecls, h \in StoredHashes }

InitPlan ==
    /\ InitMore
    /\ focus = "schema"
    /\ build \in {"provider", "provider_final"}
    /\ env = EmptyEnv
    /\ providerData = ProviderDeclared
    /\ configureResp = Configured(build)
    /\ schemaCfg \in SchemaDecls
    /\ schemaState \in {Nil} \cup { Ptr(st) : st \in StoredSchemas }
    /\ world = IF schemaState = Nil THEN InitWorld
               ELSE [InitWorld EXCEPT !.issued = 1, !.schemas = {IdText(1)}]
    /\ fs \in [Paths -> Files]
    /\ blockCfg = BlockBase
    /\ blockState = Nil
    /\ pending = Nil
    /\ planResp = NoPlan
    /\ lastResp = NoResp

NextPlan == SchemaPlan

SpecPlan == InitPlan /\ [][NextPlan]_vars

(* SpecLifecycle: the host drives one resource through plans and applies.   *)
InitLifecycle ==
    /\ InitMore
    /\ focus \in {"block", "schema"}
    /\ build \in IF focus = "block" THEN {"provider"} ELSE {"provider", "provider_final"}
    /\ env = EmptyEnv
    /\ providerData = ProviderDeclared
    /\ configureResp = Configured(build)
    /\ world = InitWorld
    /\ blockCfg = BlockBase
    /\ blockState = Nil
    /\ schemaCfg = SchemaBase
    /\ schemaState = Nil
    /\ fs = [p \in Paths |-> Ptr(<<0>>)]
    /\ pending = Nil
    /\ planResp = NoPlan
    /\ lastResp = NoResp

NextLifecycle ==
    \/ HostBlockEdit
    \/ BlockPlan
    \/ BlockApply
    \/ HostSchemaEdit
    \/ SchemaPlan
    \/ SchemaApply
    \/ SchemaCreateFinish
    \/ FileWrite

SpecLifecycle == InitLifecycle /\ [][NextLifecycle]_vars

-----------------------------------------------------------------------------
(* Properties of MinecraftProvider.Configure, under SpecConfigure.           *)
Declared(v) == v.state = "known" /\ v.value # ""

BothSet ==
    /\ Declared(providerData.Endpoint) /\ env.MINECRAFT_ENDPOINT # ""
    /\ Declared(providerData.APIKey) /\ env.MINECRAFT_APIKEY # ""

ClientIs(url, apiKey) ==
    /\ ~HasError(configureResp.resp.Diagnostics)
    /\ configureResp.resp.ResourceData = Ptr([baseURL |-> url, apiKey |-> apiKey])
    /\ configureResp.resp.DataSourceData = Ptr([baseURL |-> url, apiKey |-> apiKey])

(* C1 as the specification states it: when endpoint and api_key are set     *)
(* both in the provider block and in the environment, Configure of          *)
(* provider_final and of part_009 builds the client with the declared       *)
(* values.                                                                  *)
C1_DeclaredWins ==
    (configureResp.done /\ build \in {"provider_final", "part_009"} /\ BothSet)
        => ClientIs(providerData.Endpoint.value, providerData.APIKey.value)

(* C1: when endpoint and api_key are set both in the provider block and in  *)
(* the environment, Configure of provider_final and of part_009 builds the  *)
(* client with the values of the environment variables: a non-empty         *)
(* MINECRAFT_ENDPOINT or MINECRAFT_APIKEY overrides the declared value.     *)
C1_EnvironmentOverrides ==
    (configureResp.done /\ build \in {"provider_final", "part_009"} /\ BothSet)
        => ClientIs(env.MINECRAFT_ENDPOINT, env.MINECRAFT_APIKEY)

C1_Witness ==
    /\ configureResp.done
    /\ build = "provider_final"
    /\ providerData.Endpoint = StringValue("A")
    /\ providerData.APIKey = StringValue("A")
    /\ env.MINECRAFT_ENDPOINT = "B"
    /\ env.MINECRAFT_APIKEY = "B"
    /\ configureResp.resp.ResourceData = Ptr([baseURL |-> "B", apiKey |-> "B"])

(* C2: when a field is not declared in the provider block (null) and its    *)
(* environment variable is non-empty, Configure succeeds and builds the     *)
(* client with the value of the environment variable for that field.        *)
C2_EnvironmentFallback ==
    (/\ configureResp.done
     /\ env.MINECRAFT_ENDPOINT # "" /\ env.MINECRAFT_APIKEY # ""
     /\ IsNull(providerData.Endpoint) \/ IsNull(providerData.APIKey))
        => /\ ~HasError(configureResp.resp.Diagnostics)
           /\ configureResp.resp.ResourceData # Nil
           /\ IsNull(providerData.Endpoint)
                => configureResp.resp.ResourceData[1].baseURL = env.MINECRAFT_ENDPOINT
           /\ IsNull(providerData.APIKey)
                => configureResp.resp.ResourceData[1].apiKey = env.MINECRAFT_APIKEY

-----------------------------------------------------------------------------
(* Properties of the plan-time check of the schema file, under SpecPlan.    *)
Planned == planResp.result[1]

DeclaredFile == ReadFile(fs, ValueString(schemaCfg.Schema))

Warnings(diags) == { i \in 1..Len(diags) : diags[i].severity = "warning" }

Names(diag, text) == \E k \in 1..Len(diag.detail) : diag.detail[k] = text

(* A prior state with a stored hash, the declaration as it was stored, and  *)
(* the declared file readable.                                              *)
PriorHashExists ==
    /\ planResp.done
    /\ schemaState # Nil
    /\ SameDeclaration(schemaCfg, schemaState[1])
    /\ ValueString(schemaState[1].SchemaHash) # ""
    /\ DeclaredFile # Nil

(* C4: when a prior stored hash H0 exists and the hash H1 recomputed from   *)
(* the file differs from H0, the plan modifier sets the planned schema_hash *)
(* to H1, requires replacement, and its warning names both H0 and H1.       *)
C4_DriftForcesReplacement ==
    (PriorHashExists /\ HashOfBytes(DeclaredFile[1]) # schemaState[1].SchemaHash.value)
        => LET H0 == schemaState[1].SchemaHash.value
               H1 == HashOfBytes(DeclaredFile[1])
               m == Planned.modifier
           IN  /\ m.PlanValue = StringValue(H1)
               /\ Planned.PlannedState.SchemaHash = StringValue(H1)
               /\ m.RequiresReplace
               /\ "SchemaHash" \in Planned.RequiresReplace
               /\ planResp.action = "replace"
               /\ \E i \in Warnings(m.Diagnostics) :
                    Names(m.Diagnostics[i], H0) /\ Names(m.Diagnostics[i], H1)

(* C5: the plan modifier does not change the planned schema_hash, does not  *)
(* require replacement and emits no warning when the recomputed hash equals *)
(* the stored hash, nor when there is no prior state (the first plan).      *)
C5_NoDriftNoChange ==
    (/\ planResp.done
     /\ \/ schemaState = Nil
        \/ PriorHashExists /\ HashOfBytes(DeclaredFile[1]) = schemaState[1].SchemaHash.value)
        => LET m == Planned.modifier
           IN  /\ m.PlanValue = Planned.request.SchemaHash
               /\ Planned.PlannedState.SchemaHash = Planned.request.SchemaHash
               /\ ~m.RequiresReplace
               /\ Warnings(m.Diagnostics) = {}

-----------------------------------------------------------------------------
(* Properties of the handlers, under Spec.                                  *)
Succeeded(op) == lastResp.op = op /\ ~HasError(lastResp.Diagnostics)

DigitOf(c) == CHOOSE d \in 0..9 : DigitChars[d + 1] = c

RECURSIVE ParseNat(_)
ParseNat(cs) ==
    IF cs = <<>> THEN 0
    ELSE ParseNat(SubSeq(cs, 1, Len(cs) - 1)) * 10 + DigitOf(cs[Len(cs)])

ParseInt(cs) == IF Head(cs) = "-" THEN 0 - ParseNat(Tail(cs)) ELSE ParseNat(cs)

RECURSIVE SplitUnderscore(_, _)
SplitUnderscore(cs, field) ==
    IF cs = <<>> THEN <<field>>
    ELSE IF Head(cs) = "_" THEN <<field>> \o SplitUnderscore(Tail(cs), <<>>)
    ELSE SplitUnderscore(Tail(cs), Append(field, Head(cs)))

Canonical(cs) ==
    /\ cs # <<>>
    /\ \A k \in 1..Len(cs) : cs[k] = "-" => k = 1
    /\ \A k \in 1..Len(cs) : cs[k] # "-" => \E d \in 0..9 : DigitChars[d + 1] = cs[k]
    /\ cs # <<"-">>

(* C6: after a successful Block Create the id of the state is the text      *)
(* "{x}_{y}_{z}" of the coordinates in decimal, a negative one with its     *)
(* sign: (-1273, 24, 288) gives "-1273_24_288".                             *)
C6_BlockIdFromCoordinates ==
    (Succeeded("BlockCreate") /\ blockState # Nil)
        => LET st == blockState[1]
               parts == SplitUnderscore(st.Id.value, <<>>)
           IN  /\ st.Id.state = "known"
               /\ Len(parts) = 3
               /\ \A k \in 1..3 : Canonical(parts[k])
               /\ ParseInt(parts[1]) = st.X.value
               /\ ParseInt(parts[2]) = st.Y.value
               /\ ParseInt(parts[3]) = st.Z.value
               /\ (st.X.value = -1273 /\ st.Y.value = 24 /\ st.Z.value = 288)
                    => st.Id.value = <<"-", "1", "2", "7", "3", "_", "2", "4", "_",
                                       "2", "8", "8">>

C6_Witness ==
    /\ Succeeded("BlockCreate")
    /\ blockState # Nil
    /\ blockState[1].X = NumberValue(-1273)
    /\ blockState[1].Id.value = <<"-", "1", "2", "7", "3", "_", "2", "4", "_", "2", "8", "8">>
    /\ world.blocks[<<-1273, 24, 288>>] = "minecraft:stone"

(* C7: after a successful Schema Create of provider_final the id of the     *)
(* state is the text the remote returned and schema_hash is the base64 text *)
(* of the SHA-256 digest of the bytes of the declared file.                 *)
C7_SchemaCreateState ==
    (Succeeded("SchemaCreate") /\ build = "provider_final")
        => /\ schemaState # Nil
           /\ Len(lastResp.calls) = 1
           /\ lastResp.calls[1].reply.StatusCode = 200
           /\ schemaState[1].Id = StringValue(lastResp.calls[1].reply.Body.text)
           /\ Len(lastResp.reads) = 2
           /\ lastResp.reads[2].path = schemaState[1].Schema.value
           /\ lastResp.reads[2].file # Nil
           /\ schemaState[1].SchemaHash
                = StringValue(EncodeToString(Sha256Sum(lastResp.reads[2].file[1])))
           /\ Len(schemaState[1].SchemaHash.value) = 44

C7_Witness ==
    /\ Succeeded("SchemaCreate")
    /\ build = "provider_final"
    /\ schemaState # Nil
    /\ schemaState[1].Id = StringValue("schema-1")
    /\ schemaState[1].SchemaHash = StringValue(HashOfBytes(<<1>>))
    /\ lastResp.reads[1].file = Ptr(<<1>>)

(* C8: a successful Create persists the declared values of the declared     *)
(* attributes, and a Read that follows persists them again as they were:    *)
(* x, y, z and material of a block, x, y and z of a schema.                 *)
C8_RoundTrip ==
    [][/\ (BlockCreate /\ ~HasError(lastResp'.Diagnostics))
            => /\ blockState' # Nil
               /\ \A a \in BlockDeclared : blockState'[1][a] = blockCfg[a]
       /\ BlockRead
            => /\ blockState' # Nil
               /\ \A a \in BlockDeclared : blockState'[1][a] = blockState[1][a]
       /\ (SchemaCreateFinish /\ ~HasError(lastResp'.Diagnostics))
            => /\ schemaState' # Nil
               /\ \A a \in {"X", "Y", "Z"} : schemaState'[1][a] = pending[1].data[a]
               /\ \A a \in {"X", "Y", "Z"} : schemaState'[1][a] = schemaCfg[a]
       /\ SchemaRead
            => /\ schemaState' # Nil
               /\ \A a \in {"X", "Y", "Z"} : schemaState'[1][a] = schemaState[1][a]]_vars

C8_Witness ==
    /\ Succeeded("BlockRead")
    /\ blockState # Nil
    /\ \A a \in BlockDeclared : blockState[1][a] = BlockBase[a]
    /\ lastResp.calls[1].reply.Body.value.Material = "minecraft:dirt"

-----------------------------------------------------------------------------
(* Properties of the lifecycle, under SpecLifecycle.                        *)

(* C9: every declared attribute of both resources has the forced-           *)
(* replacement policy, a change of a declared attribute is planned as a     *)
(* replacement (Delete, then Create), and the host never plans or calls     *)
(* Update.                                                                  *)
C9_ReplaceOnly ==
    /\ \A a \in BlockDeclared : HasModifier(BlockAttributes, a, "RequiresReplace")
    /\ \A a \in SchemaDeclared : HasModifier(SchemaAttributes, a, "RequiresReplace")
    /\ planResp.action # "update"
    /\ lastResp.op \notin {"BlockUpdate", "SchemaUpdate"}
    /\ \A k \in 1..Len(planResp.todo) : planResp.todo[k] # "Update"
    /\ (/\ planResp.done
        /\ focus = "block"
        /\ blockState # Nil
        /\ \E a \in BlockDeclared : blockCfg[a] # blockState[1][a])
            => planResp.action = "replace"
    /\ (/\ planResp.done
        /\ focus = "schema"
        /\ schemaState # Nil
        /\ \E a \in SchemaDeclared : schemaCfg[a] # schemaState[1][a])
            => planResp.action = "replace"

C9_Witness ==
    /\ planResp.action = "replace"
    /\ planResp.todo = <<>>
    /\ Succeeded("BlockCreate")
    /\ blockState # Nil
    /\ blockState[1].Material = StringValue("minecraft:dirt")
    /\ blockCfg = BlockDecl(-1273, 24, 288, "minecraft:dirt")
    /\ world.blocks[<<-1273, 24, 288>>] = "minecraft:dirt"

-----------------------------------------------------------------------------
(* Properties of the error paths of the handlers, under Spec.               *)
LastReply == lastResp.calls[1].reply

ReplyFailed(reply) == reply.kind = "transport" \/ reply.StatusCode # 200

(* C11: a Schema Read with a persisted id to which the remote answers with  *)
(* a status other than 200 gives the host a diagnostic.                     *)
C11_MissingSchemaDiagnosed ==
    (/\ lastResp.op = "SchemaRead"
     /\ Len(lastResp.calls) = 1
     /\ LastReply.kind = "http"
     /\ LastReply.StatusCode # 200)
        => Len(lastResp.Diagnostics) > 0

(* C12: Schema Read never removes the resource from the state: whether      *)
(* getSchemaDetails returns details, nil or an error, id, schema_hash and   *)
(* the declared attributes of the state after Read are those before Read.   *)
C12_ReadKeepsState ==
    [][SchemaRead
         => /\ schemaState' # Nil
            /\ schemaState'[1].Id = schemaState[1].Id
            /\ schemaState'[1].SchemaHash = schemaState[1].SchemaHash
            /\ \A a \in SchemaDeclared : schemaState'[1][a] = schemaState[1][a]]_vars

C12_Witness ==
    /\ lastResp.op = "SchemaRead"
    /\ Len(lastResp.calls) = 1
    /\ LastReply.kind = "http"
    /\ LastReply.StatusCode = 404
    /\ schemaState # Nil
    /\ schemaState[1].Id = StringValue("schema-1")
    /\ "schema-1" \notin world.schemas

-----------------------------------------------------------------------------
(* SpecRead: SchemaResource.Read on every prior state the host can hand to  *)
(* it, also one in which id is null.                                        *)
HostSchemaStates ==
    { WithDeclaration(d, id, h) :
        d \in SchemaEdits,
        id \in {StringNull} \cup { StringValue(IdText(n)) : n \in 1..MaxSchemas },
        h \in {StringNull} \cup { StringValue(x) : x \in StoredHashes } }

InitRead ==
    /\ InitMore
    /\ focus = "schema"
    /\ build \in {"provider", "provider_final"}
    /\ env = EmptyEnv
    /\ providerData = ProviderDeclared
    /\ configureResp = Configured(build)
    /\ schemaCfg = SchemaBase
    /\ schemaState \in { Ptr(st) : st \in HostSchemaStates }
    /\ world \in { [InitWorld EXCEPT !.issued = MaxSchemas, !.schemas = ids] :
                     ids \in SUBSET { IdText(n) : n \in 1..MaxSchemas } }
    /\ fs = [p \in Paths |-> Ptr(<<0>>)]
    /\ blockCfg = BlockBase
    /\ blockState = Nil
    /\ pending = Nil
    /\ planResp = NoPlan
    /\ lastResp = NoResp

NextRead == SchemaRead \/ WorldSchemaUndo

SpecRead == InitRead /\ [][NextRead]_vars

(* C13: Schema Read on a state in which no id is persisted makes no remote  *)
(* call, adds no diagnostic and leaves the state unchanged.                 *)
C13_ReadWithoutId ==
    [][(SchemaRead /\ IsNull(schemaState[1].Id))
         => /\ lastResp'.calls = <<>>
            /\ lastResp'.Diagnostics = <<>>
            /\ schemaState' = schemaState
            /\ world' = world]_vars

C13_Witness ==
    /\ lastResp.op = "SchemaRead"
    /\ schemaState # Nil
    /\ IsNull(schemaState[1].Id)
    /\ lastResp.calls = <<>>
    /\ lastResp.Diagnostics = <<>>

-----------------------------------------------------------------------------
(* Properties of the error paths of the block resource, under Spec.         *)

(* C14: when createBlock fails (a status other than 200 or a transport      *)
(* failure) Block Create adds one Client Error diagnostic after its one     *)
(* call and persists nothing: the resource stays absent from the state.     *)
C14_CreateFailurePersistsNothing ==
    (lastResp.op = "BlockCreate" /\ ReplyFailed(LastReply))
        => /\ Len(lastResp.calls) = 1
           /\ Len(lastResp.Diagnostics) = 1
           /\ lastResp.Diagnostics[1].severity = "error"
           /\ lastResp.Diagnostics[1].summary = "Client Error"
           /\ blockState = Nil

C14_Witness ==
    /\ lastResp.op = "BlockCreate"
    /\ LastReply.kind = "http"
    /\ LastReply.StatusCode = 500
    /\ HasError(lastResp.Diagnostics)
    /\ blockState = Nil

(* C15: when getBlock fails (any status other than 200, not-found included, *)
(* or a transport failure) Block Read adds an error diagnostic and leaves   *)
(* the persisted state as it was.                                           *)
C15_ReadFailureKeepsState ==
    [][(BlockRead /\ ReplyFailed(lastResp'.calls[1].reply))
         => /\ HasError(lastResp'.Diagnostics)
            /\ blockState' = blockState
            /\ blockState' # Nil]_vars

C15_Witness ==
    /\ lastResp.op = "BlockRead"
    /\ LastReply.kind = "http"
    /\ LastReply.StatusCode = 404
    /\ HasError(lastResp.Diagnostics)
    /\ blockState # Nil
    /\ world.blocks[<<Int64(blockState[1].X), Int64(blockState[1].Y), Int64(blockState[1].Z)>>]
         = Air

(* C16: every Block Delete makes one deleteBlock call with the coordinates  *)
(* of the state and passes the result through: a reply other than 200, as   *)
(* for a block that is already gone, gives an error diagnostic and keeps    *)
(* the state; only a 200 removes the resource from the state.               *)
C16_DeletePassesThrough ==
    [][BlockDelete
         => /\ Len(lastResp'.calls) = 1
            /\ lastResp'.calls[1].request.Method = "DELETE"
            /\ lastResp'.calls[1].request.path = "/v1/block"
            /\ lastResp'.calls[1].request.args
                 = <<blockState[1].X.value, blockState[1].Y.value, blockState[1].Z.value>>
            /\ ReplyFailed(lastResp'.calls[1].reply)
                 => /\ HasError(lastResp'.Diagnostics)
                    /\ lastResp'.Diagnostics[1].summary = "Client Error"
                    /\ blockState' = blockState
            /\ ~ReplyFailed(lastResp'.calls[1].reply)
                 => /\ ~HasError(lastResp'.Diagnostics)
                    /\ blockState' = Nil]_vars

C16_Witness ==
    /\ lastResp.op = "BlockDelete"
    /\ LastReply.kind = "http"
    /\ LastReply.StatusCode = 404
    /\ HasError(lastResp.Diagnostics)
    /\ blockState # Nil
    /\ world.blocks[<<Int64(blockState[1].X), Int64(blockState[1].Y), Int64(blockState[1].Z)>>]
         = Air

-----------------------------------------------------------------------------
(* Properties of the id of the schema resource.                             *)

(* C17: Schema Delete makes one undoSchema call with the id of the state,   *)
(* which is the id the remote issued to the Create of this resource (the    *)
(* last id it issued), whatever Reads came in between; a failing undoSchema *)
(* gives a Client Error diagnostic and keeps the state.                     *)
C17_DeleteUsesCreatedId ==
    [][SchemaDelete
         => /\ Len(lastResp'.calls) = 1
            /\ lastResp'.calls[1].request.Method = "DELETE"
            /\ lastResp'.calls[1].request.path = "/v1/schema/undo"
            /\ lastResp'.calls[1].request.args = <<schemaState[1].Id.value>>
            /\ world.issued >= 1
            /\ schemaState[1].Id = StringValue(IdText(world.issued))
            /\ ReplyFailed(lastResp'.calls[1].reply)
                 => /\ HasError(lastResp'.Diagnostics)
                    /\ lastResp'.Diagnostics[1].summary = "Client Error"
                    /\ schemaState' = schemaState
            /\ ~ReplyFailed(lastResp'.calls[1].reply)
                 => /\ ~HasError(lastResp'.Diagnostics)
                    /\ schemaState' = Nil
                    /\ schemaState[1].Id.value \notin world'.schemas]_vars

C17_Witness ==
    /\ lastResp.op = "SchemaDelete"
    /\ ~HasError(lastResp.Diagnostics)
    /\ lastResp.calls[1].request.args = <<"schema-2">>
    /\ schemaState = Nil
    /\ world.issued = 2
    /\ "schema-2" \notin world.schemas

-----------------------------------------------------------------------------
(* SchemaResource.ImportState, provider_final lines 232-234:                *)
(* ImportStatePassthroughID copies the id the operator gave to the import   *)
(* into the attribute id of an otherwise null state.  The other build has   *)
(* no ImportState.                                                          *)
NumberNull == [state |-> "null", value |-> 0]

ImportStatePassthroughID(id) ==
    [X |-> NumberNull, Y |-> NumberNull, Z |-> NumberNull, Rotation |-> NumberNull,
     Schema |-> StringNull, SchemaHash |-> StringNull, Id |-> StringValue(id)]

(* The ids an operator imports: one the remote has issued, one it has not.  *)
ImportIds == {IdText(1), "imported"}

SchemaImport ==
    /\ SchemaIdle
    /\ build = "provider_final"
    /\ schemaState = Nil
    /\ \E id \in ImportIds :
         /\ schemaState' = Ptr(ImportStatePassthroughID(id))
         /\ lastResp' = HandlerResp("SchemaImport", NoDiagnostics, <<>>, <<>>)
    /\ UNCHANGED <<providerVars, moreVars, focus, world, blockVars, schemaCfg, fs, pending, planResp>>

(* SpecImport: the handlers of the schema resource with import among them.  *)
InitImport ==
    /\ InitMore
    /\ focus = "schema"
    /\ build \in {"provider", "provider_final"}
    /\ env = EmptyEnv
    /\ providerData = ProviderDeclared
    /\ configureResp = Configured(build)
    /\ world = InitWorld
    /\ blockCfg = BlockBase
    /\ blockState = Nil
    /\ schemaCfg = SchemaBase
    /\ schemaState = Nil
    /\ fs = [p \in Paths |-> Ptr(<<0>>)]
    /\ pending = Nil
    /\ planResp = NoPlan
    /\ lastResp = NoResp

NextImport ==
    \/ SchemaImport
    \/ SchemaCreateUpload
    \/ SchemaCreateFinish
    \/ SchemaRead
    \/ SchemaDelete
    \/ WorldSchemaUndo

SpecImport == InitImport /\ [][NextImport]_vars

(* C18: in every reachable state the schema resource has an id in the state *)
(* only if a createSchema call for it succeeded and returned that id: the   *)
(* id of the state is the last id the remote issued.                        *)
C18_IdOnlyFromCreate ==
    schemaState # Nil
        => /\ schemaState[1].Id.state = "known"
           /\ world.issued >= 1
           /\ schemaState[1].Id.value = IdText(world.issued)

(* C19: when Schema Create cannot hash the schema file (the file cannot be  *)
(* read at the time of hashing) the response carries an error diagnostic    *)
(* and no schema state is persisted for the resource.                       *)
HashingFailed ==
    /\ lastResp.op = "SchemaCreate"
    /\ Len(lastResp.reads) = 2
    /\ lastResp.reads[2].file = Nil

C19_HashFailureBlocksCreate ==
    [][(SchemaCreateFinish /\ HashingFailed')
         => (HasError(lastResp'.Diagnostics) /\ schemaState' = Nil)]_vars

(* C20: when the api key resolved from the provider block and               *)
(* MINECRAFT_APIKEY is the empty string, Configure returns an error         *)
(* diagnostic and builds no client; and no client that Configure hands to   *)
(* the resources and data sources has an empty api key.                     *)
C20_EmptyApiKeyNoClient ==
    configureResp.done
        => /\ ResolveApiKey(providerData, env) = ""
                => /\ HasError(configureResp.resp.Diagnostics)
                   /\ configureResp.resp.ResourceData = Nil
                   /\ configureResp.resp.DataSourceData = Nil
           /\ configureResp.resp.ResourceData # Nil
                => configureResp.resp.ResourceData[1].apiKey # ""
           /\ configureResp.resp.DataSourceData # Nil
                => configureResp.resp.DataSourceData[1].apiKey # ""

-----------------------------------------------------------------------------
(* Block data source (unnamed/part_009, lines 150-250).                     *)
(* req.Config of the data source: the declared coordinates; the computed    *)
(* attributes material and id are null in the configuration.                *)
DataConfig(cfg) ==
    [X |-> cfg.X, Y |-> cfg.Y, Z |-> cfg.Z, Material |-> StringNull, Id |-> StringNull]

dataClient == configureResp.resp.DataSourceData[1]

(* A Read that sets the id and leaves material as the configuration has it. *)
BlockDataSourceReadResult_NoMaterial(data, r) ==
    IF r.err # Nil
    THEN [Diagnostics |-> AddError(NoDiagnostics, "Unable to retrieve block",
                                   [text |-> "Unable to get block, got error", err |-> r.err[1]]),
          State |-> Nil]
    ELSE [Diagnostics |-> NoDiagnostics,
          State |-> Ptr([data EXCEPT !.Id = StringValue(r.value[1].ID)])]

(* BlockDataSource.Read, lines 218-250, after getBlock returned r.          *)
BlockDataSourceReadResult(data, r) ==
    IF r.err # Nil
    THEN [Diagnostics |-> AddError(NoDiagnostics, "Unable to retrieve block",
                                   [text |-> "Unable to get block, got error", err |-> r.err[1]]),
          State |-> Nil]
    ELSE [Diagnostics |-> NoDiagnostics,
          State |-> Ptr([data EXCEPT !.Material = StringValue(r.value[1].Material),
                                     !.Id = StringValue(r.value[1].ID)])]

BlockDataSourceRead ==
    /\ focus = "data"
    /\ LET data == DataConfig(dataCfg)
           x == Int64(data.X)
           y == Int64(data.Y)
           z == Int64(data.Z)
       IN  \E o \in RemoteGetBlock(world, <<x, y, z>>) :
             LET res == BlockDataSourceReadResult(data, getBlock(dataClient, x, y, z, o.reply))
             IN  /\ world' = o.world
                 /\ dataState' = res.State
                 /\ lastResp' = HandlerResp("BlockDataSourceRead", res.Diagnostics,
                        <<Exchange(getBlockRequest(dataClient, x, y, z), o.reply)>>, <<>>)
    /\ UNCHANGED <<providerVars, focus, blockVars, schemaVars, planResp, dataCfg, concVars>>

(* The coordinates a data source is declared with. *)
DataDecls == { [X |-> d.X, Y |-> d.Y, Z |-> d.Z] : d \in BlockEdits }

DataConfigChange ==
    /\ focus = "data"
    /\ \E d \in DataDecls : d # dataCfg /\ dataCfg' = d
    /\ UNCHANGED <<providerVars, focus, world, blockVars, schemaVars, planResp, lastResp,
                   dataState, concVars>>

(* SpecData: the host reads the data source at any time while the           *)
(* declaration and the world change.                                        *)
InitData ==
    /\ InitMore
    /\ focus = "data"
    /\ build = "part_009"
    /\ env = EmptyEnv
    /\ providerData = ProviderDeclared
    /\ configureResp = Configured(build)
    /\ world = InitWorld
    /\ blockCfg = BlockBase
    /\ blockState = Nil
    /\ schemaCfg = SchemaBase
    /\ schemaState = Nil
    /\ fs = [p \in Paths |-> Ptr(<<0>>)]
    /\ pending = Nil
    /\ planResp = NoPlan
    /\ lastResp = NoResp

NextData ==
    \/ BlockDataSourceRead
    \/ DataConfigChange
    \/ WorldBlockChange

SpecData == InitData /\ [][NextData]_vars

(* C21: a Read of the block data source whose getBlock succeeds persists    *)
(* the configured coordinates with the material and the id the remote       *)
(* returned; a Read whose getBlock fails adds an error diagnostic, makes no *)
(* further call and sets no state.                                          *)
C21_DataSourceRead ==
    [][BlockDataSourceRead =>
         /\ Len(lastResp'.calls) = 1
         /\ lastResp'.calls[1].request.args
              = <<dataCfg.X.value, dataCfg.Y.value, dataCfg.Z.value>>
         /\ IF ReplyFailed(lastResp'.calls[1].reply)
            THEN /\ HasError(lastResp'.Diagnostics)
                 /\ dataState' = Nil
            ELSE /\ ~HasError(lastResp'.Diagnostics)
                 /\ dataState' # Nil
                 /\ dataState'[1].X = dataCfg.X
                 /\ dataState'[1].Y = dataCfg.Y
                 /\ dataState'[1].Z = dataCfg.Z
                 /\ dataState'[1].Material
                      = StringValue(lastResp'.calls[1].reply.Body.value.Material)
                 /\ dataState'[1].Id
                      = StringValue(lastResp'.calls[1].reply.Body.value.ID)]_vars

C21_Witness ==
    /\ lastResp.op = "BlockDataSourceRead"
    /\ dataState # Nil
    /\ dataState[1].Material = StringValue("minecraft:dirt")
    /\ dataState[1].X = NumberValue(0)

-----------------------------------------------------------------------------
(* Concurrent handlers.  The host runs the handlers of distinct resource    *)
(* instances in parallel goroutines and one handler at a time per instance. *)
(* Every handler of the block resource (part_003 lines 111-221) works on    *)
(* its own request and response and on the shared *client, whose fields     *)
(* only newClient writes (client.go lines 14-44).  A handler is three       *)
(* steps: it decodes its request, the remote serves its HTTP call, it       *)
(* writes its response.                                                     *)
Insts == {1, 2}

Idle(cfg, st) ==
    [cfg |-> cfg, state |-> st, pc |-> "idle", op |-> "none", reply |-> Nil,
     Diagnostics |-> NoDiagnostics, ctx |-> "live"]

OpsFor(st) == IF st = Nil THEN {"Create"} ELSE {"Read", "Update", "Delete"}

(* The response of handler op for declaration cfg and prior state st, once  *)
(* the remote answered reply (Update makes no call).                        *)
ConcResult(op, cfg, st, reply) ==
    CASE op = "Create" ->
           LET data == BlockPlanForCreate(cfg)
           IN  BlockCreateResult(data, createBlock(theClient, blockRequestOf(data), reply))
      [] op = "Read" ->
           BlockReadResult(st[1], getBlock(theClient, Int64(st[1].X), Int64(st[1].Y),
                                           Int64(st[1].Z), reply))
      [] op = "Update" -> BlockUpdateResult(BlockPlanForUpdate(cfg, st[1]), st[1])
      [] op = "Delete" -> BlockDeleteResult(st[1], deleteBlock(theClient, st[1], reply))

(* What the remote does with the call of handler op. *)
ConcRemoteOutcomes(op, cfg, st, w) ==
    CASE op = "Create" -> RemoteCreateBlock(w, blockRequestOf(BlockPlanForCreate(cfg)))
      [] op = "Read" ->
           RemoteGetBlock(w, <<Int64(st[1].X), Int64(st[1].Y), Int64(st[1].Z)>>)
      [] op = "Delete" ->
           RemoteDeleteBlock(w, <<Int64(st[1].X), Int64(st[1].Y), Int64(st[1].Z)>>)

(* A State.Set that writes the state of every instance. *)
SetState_Shared(in, i, st, diags) ==
    [j \in DOMAIN in |->
        IF j = i
        THEN [in[j] EXCEPT !.state = st, !.pc = "idle", !.Diagnostics = diags]
        ELSE [in[j] EXCEPT !.state = st]]

(* resp.State.Set / RemoveResource: the response holds the state of the     *)
(* instance the request is for.                                             *)
SetState(in, i, st, diags) ==
    [in EXCEPT ![i].state = st, ![i].pc = "idle", ![i].Diagnostics = diags]

ConcBegin(i) ==
    /\ focus = "conc"
    /\ inst[i].pc = "idle"
    /\ \E op \in OpsFor(inst[i].state) :
         inst' = [inst EXCEPT ![i].op = op, ![i].reply = Nil, ![i].ctx = "live",
                              ![i].Diagnostics = NoDiagnostics,
                              ![i].pc = IF op = "Update" THEN "replied" ELSE "sent"]
    /\ UNCHANGED <<providerVars, dataVars, focus, world, blockVars, schemaVars, planResp,
                   lastResp, serial>>

(* The remote serves the call of handler i.  Run alone at this moment, the  *)
(* handler would end in the state kept in serial.                           *)
ConcRemote(i) ==
    /\ focus = "conc"
    /\ inst[i].pc = "sent"
    /\ \E o \in ConcRemoteOutcomes(inst[i].op, inst[i].cfg, inst[i].state, world) :
         /\ world' = o.world
         /\ inst' = [inst EXCEPT ![i].reply = Ptr(o.reply), ![i].pc = "replied"]
         /\ serial' = IF inst[i].op # "Create" /\ serial[i] = Nil THEN serial
                      ELSE [serial EXCEPT ![i] =
                              ConcResult(inst[i].op, inst[i].cfg, serial[i], o.reply).State]
    /\ UNCHANGED <<providerVars, dataVars, focus, blockVars, schemaVars, planResp, lastResp>>

ConcFinish(i) ==
    /\ focus = "conc"
    /\ inst[i].pc = "replied"
    /\ LET reply == IF inst[i].reply = Nil THEN Nil ELSE inst[i].reply[1]
           res == ConcResult(inst[i].op, inst[i].cfg, inst[i].state, reply)
       IN  /\ inst' = SetState(inst, i, res.State, res.Diagnostics)
           /\ serial' = IF inst[i].op # "Update" \/ serial[i] = Nil THEN serial
                        ELSE [serial EXCEPT ![i] =
                                ConcResult("Update", inst[i].cfg, serial[i], Nil).State]
    /\ UNCHANGED <<providerVars, dataVars, focus, world, blockVars, schemaVars, planResp,
                   lastResp>>

(* SpecConcurrent: two block instances, at one coordinate or at two.        *)
InitConcurrent ==
    /\ dataCfg = DataBase
    /\ dataState = Nil
    /\ focus = "conc"
    /\ build = "provider"
    /\ env = EmptyEnv
    /\ providerData = ProviderDeclared
    /\ configureResp = Configured(build)
    /\ world = InitWorld
    /\ blockCfg = BlockBase
    /\ blockState = Nil
    /\ schemaCfg = SchemaBase
    /\ schemaState = Nil
    /\ fs = [p \in Paths |-> Ptr(<<0>>)]
    /\ pending = Nil
    /\ planResp = NoPlan
    /\ lastResp = NoResp
    /\ \E d \in BlockEdits \ {BlockBase} :
         inst = [i \in Insts |-> Idle(IF i = 1 THEN BlockBase ELSE d, Nil)]
    /\ serial = [i \in Insts |-> Nil]

NextConcurrent == \E i \in Insts : ConcBegin(i) \/ ConcRemote(i) \/ ConcFinish(i)

SpecConcurrent == InitConcurrent /\ [][NextConcurrent]_vars

ConcStep(i) == ConcBegin(i) \/ ConcRemote(i) \/ ConcFinish(i)

AllIdle == \A i \in Insts : inst[i].pc = "idle"

-----------------------------------------------------------------------------
(* SpecHash: calculateHashFromFile on the files of every file system of     *)
(* the model.  One step hashes two paths, as two calls of the function.     *)
RECURSIVE BytesOfLen(_)
BytesOfLen(n) ==
    IF n = 0 THEN {<<>>}
    ELSE { Append(b, x) : b \in BytesOfLen(n - 1), x \in 0..MaxByte }

HashedFiles == {Nil} \cup { Ptr(c) : c \in UNION { BytesOfLen(n) : n \in 0..MaxFileLen } }

(* calculateHashFromFile(path): os.Open(path), then the digest of what the  *)
(* file holds.                                                              *)
HashCall(files, path) ==
    [path |-> path, file |-> ReadFile(files, path),
     result |-> calculateHashFromFile(ReadFile(files, path))]

HashTwoFiles ==
    /\ focus = "hash"
    /\ \E p \in Paths, q \in Paths :
         lastResp' = HandlerResp("calculateHashFromFile", NoDiagnostics, <<>>,
                                 <<HashCall(fs, p), HashCall(fs, q)>>)
    /\ UNCHANGED <<providerVars, moreVars, focus, world, blockVars, schemaVars, planResp>>

InitHash ==
    /\ InitMore
    /\ focus = "hash"
    /\ build = "provider_final"
    /\ env = EmptyEnv
    /\ providerData = ProviderDeclared
    /\ configureResp = Configured(build)
    /\ world = InitWorld
    /\ blockCfg = BlockBase
    /\ blockState = Nil
    /\ schemaCfg = SchemaBase
    /\ schemaState = Nil
    /\ fs \in [Paths -> HashedFiles]
    /\ pending = Nil
    /\ planResp = NoPlan
    /\ lastResp = NoResp

NextHash == HashTwoFiles

SpecHash == InitHash /\ [][NextHash]_vars

C23_WitnessDiffer ==
    /\ lastResp.op = "calculateHashFromFile"
    /\ lastResp.reads[1].file = Ptr(<<1, 0>>)
    /\ lastResp.reads[2].file = Ptr(<<0, 1>>)
    /\ lastResp.reads[1].result.hash # lastResp.reads[2].result.hash

-----------------------------------------------------------------------------
(* Cancellation.  Every handler receives the context of the host's request  *)
(* (ctx context.Context); the host cancels it when the operator interrupts  *)
(* the run or a timeout passes.  The methods of the client take no context: *)
(* they build the request with http.NewRequest and send it with             *)
(* http.DefaultClient.Do (client.go lines 55-61, 142-149), so the call and  *)
(* the handler go on as ConcRemote and ConcFinish say, whatever ctx is.     *)
ConcCancel(i) ==
    /\ focus = "conc"
    /\ inst[i].pc = "sent"
    /\ inst[i].ctx = "live"
    /\ inst' = [inst EXCEPT ![i].ctx = "cancelled"]
    /\ UNCHANGED <<providerVars, dataVars, focus, world, blockVars, schemaVars, planResp,
                   lastResp, serial>>

NextCancel == \E i \in Insts : ConcBegin(i) \/ ConcCancel(i) \/ ConcRemote(i) \/ ConcFinish(i)

SpecCancel == InitConcurrent /\ [][NextCancel]_vars

(* C24: a handler whose context the host cancelled while its HTTP call was  *)
(* in flight ends with an error diagnostic.                                 *)
C24_CancelledCallFails ==
    [][\A i \in Insts :
         (ConcFinish(i) /\ inst[i].ctx = "cancelled") => HasError(inst'[i].Diagnostics)]_vars

(* C25: every request a handler sends to the remote (createBlock, getBlock, *)
(* deleteBlock, createSchema, getSchemaDetails, undoSchema) carries the     *)
(* header X-API-Key with the api key the client was constructed with.       *)
C25_EveryRequestCarriesKey ==
    \A k \in DOMAIN lastResp.calls :
        /\ configureResp.resp.ResourceData # Nil
        /\ lastResp.calls[k].request.Header.XAPIKey
             = configureResp.resp.ResourceData[1].apiKey
        /\ lastResp.calls[k].request.Header.XAPIKey = ResolveApiKey(providerData, env)

C25_Witness ==
    /\ lastResp.op = "SchemaDelete"
    /\ Len(lastResp.calls) = 1
    /\ lastResp.calls[1].request.Method = "DELETE"
    /\ lastResp.calls[1].request.Header.XAPIKey = "B"

(* C26: getSchemaDetails returns (nil, no error) for every response whose   *)
(* status is not 200, whatever the status; it returns an error only when    *)
(* the transport fails or the body of a 200 response cannot be decoded; on  *)
(* 200 it returns the decoded bounding box.  (Schema Read, its only caller, *)
(* reports an error exactly when getSchemaDetails returned one.)            *)
C26_DetailsNilOnNon200 ==
    (lastResp.op = "SchemaRead" /\ Len(lastResp.calls) = 1)
        => LET reply == lastResp.calls[1].reply
               r == getSchemaDetails(theClient, lastResp.calls[1].request.args[1], reply)
           IN  /\ IF reply.kind = "transport" THEN r.value = Nil /\ r.err # Nil
                  ELSE IF reply.StatusCode # 200 THEN r.value = Nil /\ r.err = Nil
                  ELSE IF reply.Body.json
                  THEN r.value = Ptr(reply.Body.value) /\ r.err = Nil
                  ELSE r.value = Nil /\ r.err # Nil
               /\ HasError(lastResp.Diagnostics) <=> r.err # Nil

C26_Witness ==
    /\ lastResp.op = "SchemaRead"
    /\ Len(lastResp.calls) = 1
    /\ lastResp.calls[1].reply.kind = "http"
    /\ lastResp.calls[1].reply.StatusCode = 500
    /\ ~HasError(lastResp.Diagnostics)

(* The other replies of the remote to getSchemaDetails. *)
C26_WitnessReplies ==
    /\ lastResp.op = "SchemaRead"
    /\ Len(lastResp.calls) = 1
    /\ lastResp.calls[1].reply.kind = "http"
    /\ lastResp.calls[1].reply.StatusCode = StatusOK
    /\ ~lastResp.calls[1].reply.Body.json
    /\ HasError(lastResp.Diagnostics)

(* C27: in every execution of Create, once createBlock or createSchema has  *)
(* returned without an error, Create goes on to persist the resource with   *)
(* its id: a block Create whose createBlock succeeded sets the state with   *)
(* the id of its coordinates, a schema Create whose createSchema succeeded  *)
(* goes on to the hashing, and from there always sets the state with the    *)
(* id that createSchema returned.                                           *)
C27_CreatedIsPersisted ==
    [][/\ (BlockCreate /\ DecodeBlock(lastResp'.calls[1].reply).err = Nil)
            => /\ blockState' # Nil
               /\ blockState'[1].Id = BlockId(BlockPlanForCreate(blockCfg))
       /\ SchemaCreateUpload
            => \/ pending' # Nil
               \/ /\ lastResp'.op = "SchemaCreate"
                  /\ HasError(lastResp'.Diagnostics)
                  /\ \/ lastResp'.calls = <<>>
                     \/ ReplyFailed(lastResp'.calls[1].reply)
       /\ SchemaCreateFinish
            => /\ ~ReplyFailed(lastResp'.calls[1].reply)
               /\ schemaState' # Nil
               /\ schemaState'[1].Id = StringValue(pending[1].id)
               /\ pending[1].id = lastResp'.calls[1].reply.Body.text]_vars

(* A schema Create whose hashing failed after the upload. *)
C27_Witness ==
    /\ build = "provider_final"
    /\ HashingFailed
    /\ schemaState # Nil
    /\ schemaState[1].Id = StringValue(IdText(1))
    /\ IdText(1) \in world.schemas

(* C28: the schema_hash that Schema Create persists is the hash of the      *)
(* bytes that createSchema uploaded, also when the file is rewritten        *)
(* between the upload and the hashing.                                      *)
C28_HashOfUploadedBytes ==
    [][SchemaCreateFinish
         => (schemaState' # Nil
               => schemaState'[1].SchemaHash
                    = StringValue(HashOfBytes(lastResp'.calls[1].request.Body)))]_vars

(* C29: when the declared schema file cannot be read at plan time, so that  *)
(* no hash can be computed, the plan modifier of schema_hash does not       *)
(* report the file as changed: it does not set forced replacement, leaves   *)
(* the planned schema_hash as it was proposed (it does not set it to the    *)
(* empty string) and adds no warning.                                       *)
C29_UnreadableFileIsNotDrift ==
    (planResp.done /\ DeclaredFile = Nil)
        => /\ ~Planned.modifier.RequiresReplace
           /\ Planned.modifier.PlanValue = Planned.request.SchemaHash
           /\ Planned.modifier.PlanValue # StringValue("")
                \/ Planned.request.SchemaHash = StringValue("")
           /\ Warnings(Planned.Diagnostics) = {}

-----------------------------------------------------------------------------
(* SpecOptional: the schema resource of src/provider, whose attribute       *)
(* rotation is optional (schema_resource.go lines 106-114): a declaration   *)
(* may leave it out, and it is then null in the plan.  (provider_final      *)
(* requires rotation; the host rejects a declaration without it.)           *)
SchemaNoRotation == [SchemaBase EXCEPT !.Rotation = NumberNull]

RotationEdit ==
    /\ focus = "schema"
    /\ schemaCfg' = IF schemaCfg = SchemaBase THEN SchemaNoRotation ELSE SchemaBase
    /\ UNCHANGED <<providerVars, moreVars, focus, world, blockVars, schemaState, fs, pending,
                   planResp, lastResp>>

InitOptional ==
    /\ InitMore
    /\ focus = "schema"
    /\ build = "provider"
    /\ env = EmptyEnv
    /\ providerData = ProviderDeclared
    /\ configureResp = Configured(build)
    /\ world = InitWorld
    /\ blockCfg = BlockBase
    /\ blockState = Nil
    /\ schemaCfg \in {SchemaBase, SchemaNoRotation}
    /\ schemaState = Nil
    /\ fs = [p \in Paths |-> Ptr(<<0>>)]
    /\ pending = Nil
    /\ planResp = NoPlan
    /\ lastResp = NoResp

NextOptional ==
    \/ RotationEdit
    \/ SchemaCreateUpload
    \/ SchemaCreateFinish
    \/ SchemaRead
    \/ SchemaDelete
    \/ FileWrite
    \/ FileRemove

SpecOptional == InitOptional /\ [][NextOptional]_vars

(* C30: Schema Create does not crash on a declaration the resource schema   *)
(* accepts, one without rotation included: when Create has ended, it has    *)
(* persisted state or returned an error diagnostic.                         *)
C30_CreateEndsWithStateOrError ==
    lastResp.op = "SchemaCreate"
        => /\ ~Panicked(lastResp)
           /\ schemaState # Nil \/ HasError(lastResp.Diagnostics)

====
